---- MODULE Spec2Model ----
(***************************************************************************)
(* Groth-Sahai proofs, SXDH instantiation (groth-sahai-rs).                *)
(*                                                                         *)
(* The bilinear group is modelled by discrete logarithms: an element x*g   *)
(* of G1, G2 or GT is the scalar x in Z_P (P prime, scaled down), the      *)
(* group law is addition mod P, the scalar action is multiplication mod P  *)
(* and the pairing e(a*g1, b*g2) = (a*b)*gT.  GT is written additively,    *)
(* as PairingOutput is.                                                    *)
(***************************************************************************)
EXTENDS Integers, Sequences, FiniteSets, TLC

\* Order of the scalar field / of G1, G2, GT (a prime, scaled down).
P == 7

\* ------------------------------------------------------------------------
\* Bounds of the model
\* ------------------------------------------------------------------------
\* Seeds of the random source explored by the proof session.
MaxSeed == 3
\* Length of the byte inputs handed to the decoders.
MaxBytes == 4
\* Largest number of rows or columns of a matrix operand.
MaxDim == 2

Fr == 0 .. (P - 1)
NonZeroFr == 1 .. (P - 1)

\* ------------------------------------------------------------------------
\* Bilinear-group adapter: field, groups, pairing
\* ------------------------------------------------------------------------
FAdd(a, b) == (a + b) % P
FNeg(a) == (P - a) % P
FMul(a, b) == (a * b) % P

GAdd(a, b) == (a + b) % P
GNeg(a) == (P - a) % P
GMul(g, s) == (g * s) % P

\* e : G1 x G2 -> GT
E_pairing(a, b) == (a * b) % P
GTAdd(a, b) == (a + b) % P

\* ------------------------------------------------------------------------
\* Com<G> = (G::Affine, G::Affine)                       algebra/com.rs
\* ------------------------------------------------------------------------
ComSet == Fr \X Fr

Com_eq(a, b) == a[1] = b[1] /\ a[2] = b[2]

\* Com::add keeping the second point of self.
Com_add_first_only(a, b) == <<GAdd(a[1], b[1]), a[2]>>

Com_add(a, b) == <<GAdd(a[1], b[1]), GAdd(a[2], b[2])>>

\* Com::neg negating the first point only.
Com_neg_first_only(a) == <<GNeg(a[1]), a[2]>>

Com_neg(a) == <<GNeg(a[1]), GNeg(a[2])>>

Com_zero == <<0, 0>>

Com_is_zero(a) == Com_eq(a, Com_zero)

\* self + -other
Com_sub(a, b) == Com_add(a, Com_neg(b))

\* Com::scalar_mul scaling the first point only.
Com_scalar_mul_first_only(a, s) == <<GMul(a[1], s), a[2]>>

Com_scalar_mul(a, s) == <<GMul(a[1], s), GMul(a[2], s)>>

RECURSIVE Com_sum(_)
Com_sum(s) ==
    IF s = <<>> THEN Com_zero
    ELSE Com_add(Com_sum(SubSeq(s, 1, Len(s) - 1)), s[Len(s)])

\* linear_map placing x in the first component.
linear_map_first(x) == <<x, 0>>

linear_map(x) == <<0, x>>

batch_linear_map(xs) == [i \in 1 .. Len(xs) |-> linear_map(xs[i])]

\* scalar_linear_map scaling self first and adding the base point afterwards.
scalar_linear_map_scale_first(self, x, p) == Com_add(Com_scalar_mul(self, x), linear_map(p))

scalar_linear_map(self, x, p) == Com_scalar_mul(Com_add(self, linear_map(p)), x)

batch_scalar_linear_map(self, xs, p) ==
    [i \in 1 .. Len(xs) |-> scalar_linear_map(self, xs[i], p)]

\* ------------------------------------------------------------------------
\* ComT = (GT, GT, GT, GT)                                algebra/com_t.rs
\* ------------------------------------------------------------------------
\* ComT::eq comparing the last cell only.
ComT_eq_last_cell(a, b) == a[4] = b[4]

\* ComT::eq comparing the first row only.
ComT_eq_first_row(a, b) == a[1] = b[1] /\ a[2] = b[2]

ComT_eq(a, b) == a[1] = b[1] /\ a[2] = b[2] /\ a[3] = b[3] /\ a[4] = b[4]

ComT_add(a, b) ==
    <<GTAdd(a[1], b[1]), GTAdd(a[2], b[2]), GTAdd(a[3], b[3]), GTAdd(a[4], b[4])>>

ComT_zero == <<0, 0, 0, 0>>

ComT_is_zero(a) == ComT_eq(a, ComT_zero)

GTNeg(a) == (P - a) % P
GTSub(a, b) == (a + P - b) % P

ComT_neg(a) == <<GTNeg(a[1]), GTNeg(a[2]), GTNeg(a[3]), GTNeg(a[4])>>

ComT_sub(a, b) ==
    <<GTSub(a[1], b[1]), GTSub(a[2], b[2]), GTSub(a[3], b[3]), GTSub(a[4], b[4])>>

\* iter.fold(Self::zero(), |a, b| a + b)
RECURSIVE ComT_sum(_)
ComT_sum(s) ==
    IF s = <<>> THEN ComT_zero
    ELSE ComT_add(ComT_sum(SubSeq(s, 1, Len(s) - 1)), s[Len(s)])

\* ComT::pairing with the two mixed cells exchanged.
pairing_transposed(x, y) ==
    <<E_pairing(x[1], y[1]), E_pairing(x[2], y[1]),
      E_pairing(x[1], y[2]), E_pairing(x[2], y[2])>>

pairing(x, y) ==
    <<E_pairing(x[1], y[1]), E_pairing(x[1], y[2]),
      E_pairing(x[2], y[1]), E_pairing(x[2], y[2])>>

\* E::multi_pairing over the parallel sequences as and bs.
RECURSIVE multi_pairing(_, _)
multi_pairing(as, bs) ==
    IF as = <<>> THEN 0
    ELSE GTAdd(multi_pairing(Tail(as), Tail(bs)), E_pairing(Head(as), Head(bs)))

\* pairing_sum asserts equal lengths before anything is paired.
\* pairing_sum_panics_longer_only rejects only a longer first sequence (the
\* zip of the iterators stops at the shorter one).
pairing_sum_panics_longer_only(xs, ys) == Len(xs) > Len(ys)

pairing_sum_panics(xs, ys) == Len(xs) # Len(ys)

\* pairing_sum with the two mixed cells exchanged.
pairing_sum_transposed(xs, ys) ==
    LET x0 == [i \in 1 .. Len(xs) |-> xs[i][1]]
        x1 == [i \in 1 .. Len(xs) |-> xs[i][2]]
        y0 == [i \in 1 .. Len(ys) |-> ys[i][1]]
        y1 == [i \in 1 .. Len(ys) |-> ys[i][2]]
    IN  <<multi_pairing(x0, y0), multi_pairing(x1, y0),
          multi_pairing(x0, y1), multi_pairing(x1, y1)>>

pairing_sum(xs, ys) ==
    LET x0 == [i \in 1 .. Len(xs) |-> xs[i][1]]
        x1 == [i \in 1 .. Len(xs) |-> xs[i][2]]
        y0 == [i \in 1 .. Len(ys) |-> ys[i][1]]
        y1 == [i \in 1 .. Len(ys) |-> ys[i][2]]
    IN  <<multi_pairing(x0, y0), multi_pairing(x0, y1),
          multi_pairing(x1, y0), multi_pairing(x1, y1)>>

linear_map_PPE(z) == <<0, 0, 0, z>>

\* linear_map_MSMEG1 pairing against com2 without the generator p2.
linear_map_MSMEG1_no_gen(z, com2, p2) ==
    pairing(linear_map(z), Com_scalar_mul(com2, 1))

linear_map_MSMEG1(z, com2, p2) ==
    pairing(linear_map(z), scalar_linear_map(com2, 1, p2))

linear_map_MSMEG2(z, com1, p1) ==
    pairing(scalar_linear_map(com1, 1, p1), linear_map(z))

\* linear_map_quad scaling com2 before the generator p2 is added.
linear_map_quad_scale_inner(z, com1, p1, com2, p2) ==
    pairing(scalar_linear_map(com1, 1, p1),
            scalar_linear_map(Com_scalar_mul(com2, z), 1, p2))

linear_map_quad(z, com1, p1, com2, p2) ==
    pairing(scalar_linear_map(com1, 1, p1),
            Com_scalar_mul(scalar_linear_map(com2, 1, p2), z))

\* ------------------------------------------------------------------------
\* Matrix<T>: an ndarray Array<T, Ix2>, shape plus row-major data
\*                                                       algebra/matrix.rs
\* ------------------------------------------------------------------------
Mk(r, c, f(_, _)) ==
    [rows |-> r, cols |-> c,
     data |-> [idx \in 1 .. (r * c) |-> f((idx - 1) \div c, (idx - 1) % c)]]

At(M, i, j) == M.data[i * M.cols + j + 1]

dim(M) == <<M.rows, M.cols>>

\* Matrix::new(&[[..]; N]) from a non-empty list of rows of equal length.
Matrix_new(xs) == Mk(Len(xs), Len(xs[1]), LAMBDA i, j : xs[i + 1][j + 1])

zeros_column(n) == [rows |-> 0, cols |-> n, data |-> <<>>]

to_vecs(M) ==
    [i \in 1 .. M.rows |-> [j \in 1 .. M.cols |-> At(M, i - 1, j - 1)]]

RECURSIVE flatten(_)
flatten(vecs) == IF vecs = <<>> THEN <<>> ELSE Head(vecs) \o flatten(Tail(vecs))

\* vecs[0] is indexed unconditionally and from_shape_vec(..).unwrap() fails
\* when the element count is not rows * cols.
from_vecs_panics(vecs) ==
    \/ Len(vecs) = 0
    \/ Len(flatten(vecs)) # Len(vecs) * Len(vecs[1])

from_vecs(vecs) ==
    [rows |-> Len(vecs), cols |-> Len(vecs[1]), data |-> flatten(vecs)]

col_vec_to_vec(M) == M.data

vec_to_col_vec(v) == [rows |-> Len(v), cols |-> 1, data |-> v]

\* ndarray co-broadcasting of two shapes along one axis.
AxisCompatible(a, b) == a = b \/ a = 1 \/ b = 1
AxisOut(a, b) == IF a = 1 THEN b ELSE a

BroadcastAdd(A, B, plus(_, _)) ==
    Mk(AxisOut(A.rows, B.rows), AxisOut(A.cols, B.cols),
       LAMBDA i, j :
          plus(At(A, IF A.rows = 1 THEN 0 ELSE i, IF A.cols = 1 THEN 0 ELSE j),
               At(B, IF B.rows = 1 THEN 0 ELSE i, IF B.cols = 1 THEN 0 ELSE j)))

\* `self.inner + other.inner` panics only when the shapes cannot be broadcast.
add_panics(A, B) ==
    ~ (AxisCompatible(A.rows, B.rows) /\ AxisCompatible(A.cols, B.cols))

\* impl Mat<F> for Matrix<F>
add_F(A, B) == BroadcastAdd(A, B, FAdd)

neg_F(A) == Mk(A.rows, A.cols, LAMBDA i, j : FNeg(At(A, i, j)))

\* Array::zeros(dim) with scaled_add(other, &self.inner) on top of self.
scalar_mul_F_onto_self(A, other) ==
    Mk(A.rows, A.cols, LAMBDA i, j : FAdd(At(A, i, j), FMul(other, At(A, i, j))))

\* res = Array::zeros(dim); res.scaled_add(other, &self.inner)
scalar_mul_F(A, other) ==
    Mk(A.rows, A.cols, LAMBDA i, j : FAdd(0, FMul(other, At(A, i, j))))

\* transpose exchanging the dimensions without moving the entries.
transpose_reshape(A) == [rows |-> A.cols, cols |-> A.rows, data |-> A.data]

transpose(A) == Mk(A.cols, A.rows, LAMBDA i, j : At(A, j, i))

RECURSIVE DotCell(_, _, _, _, _)
DotCell(A, B, i, j, k) ==
    IF k = 0 THEN 0
    ELSE FAdd(DotCell(A, B, i, j, k - 1), FMul(At(A, i, k - 1), At(B, k - 1, j)))

\* ndarray `dot` panics on incompatible shapes.
dot_panics(A, B) == A.cols # B.rows

dot(A, B) == Mk(A.rows, B.cols, LAMBDA i, j : DotCell(A, B, i, j, A.cols))

right_mul_F(self, rhs) == dot(self, rhs)

left_mul_F(self, lhs) == dot(lhs, self)

\* impl Mat<Com<G>> for Matrix<Com<G>>
add_Com(A, B) == BroadcastAdd(A, B, Com_add)

neg_Com(A) == Mk(A.rows, A.cols, LAMBDA i, j : Com_neg(At(A, i, j)))

transpose_Com(A) == Mk(A.cols, A.rows, LAMBDA i, j : At(A, j, i))

\* row[k] with k in 0 .. rows(rhs) indexes a row of self of length cols(self).
right_mul_Com_panics(self, rhs) ==
    self.rows > 0 /\ rhs.cols > 0 /\ rhs.rows > self.cols

\* right_mul with the inner loop stopping one short.
right_mul_Com_short_loop(self, rhs) ==
    Mk(self.rows, rhs.cols,
       LAMBDA i, j :
          Com_sum([k \in 1 .. (rhs.rows - 1) |->
                      Com_scalar_mul(At(self, i, k - 1), At(rhs, k - 1, j))]))

right_mul_Com(self, rhs) ==
    Mk(self.rows, rhs.cols,
       LAMBDA i, j :
          Com_sum([k \in 1 .. rhs.rows |->
                      Com_scalar_mul(At(self, i, k - 1), At(rhs, k - 1, j))]))

\* row[k] with k in 0 .. rows(self) indexes a row of lhs of length cols(lhs).
left_mul_Com_panics(self, lhs) ==
    lhs.rows > 0 /\ self.cols > 0 /\ self.rows > lhs.cols

\* left_mul with the inner loop stopping one short.
left_mul_Com_short_loop(self, lhs) ==
    Mk(lhs.rows, self.cols,
       LAMBDA i, j :
          Com_sum([k \in 1 .. (self.rows - 1) |->
                      Com_scalar_mul(At(self, k - 1, j), At(lhs, i, k - 1))]))

left_mul_Com(self, lhs) ==
    Mk(lhs.rows, self.cols,
       LAMBDA i, j :
          Com_sum([k \in 1 .. self.rows |->
                      Com_scalar_mul(At(self, k - 1, j), At(lhs, i, k - 1))]))

\* ------------------------------------------------------------------------
\* Random source (ark_std::rand::Rng): a deterministic stream of scalars
\* ------------------------------------------------------------------------
RngStep(s) == (s * 75 + 74) % 65537

RECURSIVE RngAfter(_, _)
RngAfter(s, n) == IF n = 0 THEN s ELSE RngStep(RngAfter(s, n - 1))

\* The k-th scalar (k >= 1) that F::rand(rng) returns from state s.
FrRand(s, k) == RngAfter(s, k) % P

\* Matrix::rand draws rows * cols scalars in row-major order;
\* Matrix_rand_column_major fills the matrix column by column.
Matrix_rand_column_major(s, rows, cols) ==
    Mk(rows, cols, LAMBDA i, j : FrRand(s, j * rows + i + 1))

Matrix_rand(s, rows, cols) == Mk(rows, cols, LAMBDA i, j : FrRand(s, i * cols + j + 1))

\* Com::rand draws the two points one after the other.
Com_rand(s) == <<FrRand(s, 1), FrRand(s, 2)>>

\* ComT::rand draws the four cells one after the other.
ComT_rand(s) == <<FrRand(s, 1), FrRand(s, 2), FrRand(s, 3), FrRand(s, 4)>>

\* ------------------------------------------------------------------------
\* CRS bootstrap (external): g1_gen, g2_gen, u = [u0, t1*u0], v = [v0, t2*v0]
\* ------------------------------------------------------------------------
NonZero(k) == 1 + (k % (P - 1))

CrsDraws == 6

generate_crs(s) ==
    LET p1 == NonZero(RngAfter(s, 1))
        p2 == NonZero(RngAfter(s, 2))
        a1 == NonZero(RngAfter(s, 3))
        a2 == NonZero(RngAfter(s, 4))
        t1 == NonZero(RngAfter(s, 5))
        t2 == NonZero(RngAfter(s, 6))
        u0 == <<p1, GMul(p1, a1)>>
        v0 == <<p2, GMul(p2, a2)>>
    IN  [g1_gen |-> p1, g2_gen |-> p2,
         u |-> <<u0, Com_scalar_mul(u0, t1)>>,
         v |-> <<v0, Com_scalar_mul(v0, t2)>>]

\* ------------------------------------------------------------------------
\* Commitment scheme                                     prover/commit.rs
\* ------------------------------------------------------------------------
NoCommit == [coms |-> <<>>, rand |-> zeros_column(0)]

\* commit_G1 pairing the second draw with u[0] and the first with u[1].
commit_G1_draws_swapped(xvar, key, s) ==
    LET r1 == FrRand(s, 1)
        r2 == FrRand(s, 2)
    IN  [coms |-> << Com_add(Com_add(linear_map(xvar),
                                     Com_scalar_mul(At(vec_to_col_vec(key.u), 0, 0), r2)),
                             Com_scalar_mul(At(vec_to_col_vec(key.u), 1, 0), r1)) >>,
         rand |-> Matrix_new(<< <<r1, r2>> >>)]

commit_G1(xvar, key, s) ==
    LET r1 == FrRand(s, 1)
        r2 == FrRand(s, 2)
    IN  [coms |-> << Com_add(Com_add(linear_map(xvar),
                                     Com_scalar_mul(At(vec_to_col_vec(key.u), 0, 0), r1)),
                             Com_scalar_mul(At(vec_to_col_vec(key.u), 1, 0), r2)) >>,
         rand |-> Matrix_new(<< <<r1, r2>> >>)]

\* batch_commit_G1 randomizing with u[0] in both columns.
batch_commit_G1_one_base(xvars, key, s) ==
    LET m == Len(xvars)
        R == Matrix_rand(s, m, 2)
        lin_x == vec_to_col_vec(batch_linear_map(xvars))
        coms == add_Com(lin_x, left_mul_Com(vec_to_col_vec(<<key.u[1], key.u[1]>>), R))
    IN  [coms |-> col_vec_to_vec(coms), rand |-> R]

batch_commit_G1(xvars, key, s) ==
    LET m == Len(xvars)
        R == Matrix_rand(s, m, 2)
        lin_x == vec_to_col_vec(batch_linear_map(xvars))
        coms == add_Com(lin_x, left_mul_Com(vec_to_col_vec(key.u), R))
    IN  [coms |-> col_vec_to_vec(coms), rand |-> R]

\* commit_scalar_to_B1 embedding the scalar on u[0] instead of u[1].
commit_scalar_to_B1_on_u0(scalar_xvar, key, s) ==
    LET r == FrRand(s, 1)
    IN  [coms |-> << Com_add(scalar_linear_map(key.u[1], scalar_xvar, key.g1_gen),
                             Com_scalar_mul(At(vec_to_col_vec(key.u), 0, 0), r)) >>,
         rand |-> Matrix_new(<< <<r>> >>)]

commit_scalar_to_B1(scalar_xvar, key, s) ==
    LET r == FrRand(s, 1)
    IN  [coms |-> << Com_add(scalar_linear_map(key.u[2], scalar_xvar, key.g1_gen),
                             Com_scalar_mul(At(vec_to_col_vec(key.u), 0, 0), r)) >>,
         rand |-> Matrix_new(<< <<r>> >>)]

batch_commit_scalar_to_B1(scalar_xvars, key, s) ==
    LET mprime == Len(scalar_xvars)
        r == Matrix_rand(s, mprime, 1)
        slin_x == vec_to_col_vec(batch_scalar_linear_map(key.u[2], scalar_xvars, key.g1_gen))
        ru == vec_to_col_vec([i \in 1 .. Len(col_vec_to_vec(r)) |->
                 Com_scalar_mul(At(vec_to_col_vec(key.u), 0, 0), col_vec_to_vec(r)[i])])
        coms == add_Com(slin_x, ru)
    IN  [coms |-> col_vec_to_vec(coms), rand |-> r]

commit_G2(yvar, key, s) ==
    LET s1 == FrRand(s, 1)
        s2 == FrRand(s, 2)
    IN  [coms |-> << Com_add(Com_add(linear_map(yvar),
                                     Com_scalar_mul(At(vec_to_col_vec(key.v), 0, 0), s1)),
                             Com_scalar_mul(At(vec_to_col_vec(key.v), 1, 0), s2)) >>,
         rand |-> Matrix_new(<< <<s1, s2>> >>)]

\* batch_commit_G2 multiplying S by the transposed basis [v[1], v[0]].
batch_commit_G2_basis_swapped(yvars, key, s) ==
    LET n == Len(yvars)
        S == Matrix_rand(s, n, 2)
        lin_y == vec_to_col_vec(batch_linear_map(yvars))
        coms == add_Com(lin_y, left_mul_Com(vec_to_col_vec(<<key.v[2], key.v[1]>>), S))
    IN  [coms |-> col_vec_to_vec(coms), rand |-> S]

batch_commit_G2(yvars, key, s) ==
    LET n == Len(yvars)
        S == Matrix_rand(s, n, 2)
        lin_y == vec_to_col_vec(batch_linear_map(yvars))
        coms == add_Com(lin_y, left_mul_Com(vec_to_col_vec(key.v), S))
    IN  [coms |-> col_vec_to_vec(coms), rand |-> S]

commit_scalar_to_B2(scalar_yvar, key, s) ==
    LET r == FrRand(s, 1)
    IN  [coms |-> << Com_add(scalar_linear_map(key.v[2], scalar_yvar, key.g2_gen),
                             Com_scalar_mul(At(vec_to_col_vec(key.v), 0, 0), r)) >>,
         rand |-> Matrix_new(<< <<r>> >>)]

\* batch_commit_scalar_to_B2 scaling v[1] only, the base point added unscaled.
batch_commit_scalar_to_B2_scale_first(scalar_yvars, key, s) ==
    LET nprime == Len(scalar_yvars)
        r == Matrix_rand(s, nprime, 1)
        slin_y == vec_to_col_vec([i \in 1 .. nprime |->
                     Com_add(Com_scalar_mul(key.v[2], scalar_yvars[i]), linear_map(key.g2_gen))])
        sv == vec_to_col_vec([i \in 1 .. Len(col_vec_to_vec(r)) |->
                 Com_scalar_mul(At(vec_to_col_vec(key.v), 0, 0), col_vec_to_vec(r)[i])])
        coms == add_Com(slin_y, sv)
    IN  [coms |-> col_vec_to_vec(coms), rand |-> r]

batch_commit_scalar_to_B2(scalar_yvars, key, s) ==
    LET nprime == Len(scalar_yvars)
        r == Matrix_rand(s, nprime, 1)
        slin_y == vec_to_col_vec(batch_scalar_linear_map(key.v[2], scalar_yvars, key.g2_gen))
        sv == vec_to_col_vec([i \in 1 .. Len(col_vec_to_vec(r)) |->
                 Com_scalar_mul(At(vec_to_col_vec(key.v), 0, 0), col_vec_to_vec(r)[i])])
        coms == add_Com(slin_y, sv)
    IN  [coms |-> col_vec_to_vec(coms), rand |-> r]

\* ------------------------------------------------------------------------
\* Canonical encoding.  A byte string is a sequence of fixed-width fields:
\* a u64 length, a scalar, or a coordinate of a curve point.
\* ------------------------------------------------------------------------
Modes == {"compressed", "uncompressed"}

Err == [tag |-> "err", val |-> <<>>, rest |-> <<>>]
Panic == [tag |-> "panic", val |-> <<>>, rest |-> <<>>]
Ok(v, rest) == [tag |-> "ok", val |-> v, rest |-> rest]

\* The second affine coordinate of the point k*g (a stand-in curve equation).
YCoord(k) == (k * k + 3) % P

Point_serialize(k, mode) ==
    IF mode = "compressed" THEN <<k>> ELSE <<k, YCoord(k)>>

Point_deserialize(b, mode) ==
    IF mode = "compressed"
    THEN IF Len(b) < 1 \/ b[1] >= P THEN Err ELSE Ok(b[1], Tail(b))
    ELSE IF Len(b) < 2 \/ b[1] >= P \/ b[2] # YCoord(b[1]) THEN Err
         ELSE Ok(b[1], Tail(Tail(b)))

\* #[derive(CanonicalSerialize, CanonicalDeserialize)] struct Com(.0, .1)
Com_serialize(c, mode) == Point_serialize(c[1], mode) \o Point_serialize(c[2], mode)

Com_deserialize(b, mode) ==
    LET r0 == Point_deserialize(b, mode)
        r1 == Point_deserialize(r0.rest, mode)
    IN  IF r0.tag # "ok" THEN Err
        ELSE IF r1.tag # "ok" THEN Err
        ELSE Ok(<<r0.val, r1.val>>, r1.rest)

RECURSIVE ReadComs(_, _, _)
ReadComs(b, n, mode) ==
    IF n = 0 THEN Ok(<<>>, b)
    ELSE LET h == Com_deserialize(b, mode)
             t == ReadComs(h.rest, n - 1, mode)
         IN  IF h.tag # "ok" THEN Err
             ELSE IF t.tag # "ok" THEN Err
             ELSE Ok(<<h.val>> \o t.val, t.rest)

RECURSIVE ConcatAll(_)
ConcatAll(ss) == IF ss = <<>> THEN <<>> ELSE Head(ss) \o ConcatAll(Tail(ss))

VecCom_serialize(cs, mode) ==
    <<Len(cs)>> \o ConcatAll([i \in 1 .. Len(cs) |-> Com_serialize(cs[i], mode)])

VecCom_deserialize(b, mode) ==
    IF b = <<>> THEN Err ELSE ReadComs(Tail(b), Head(b), mode)

RECURSIVE ReadFrs(_, _)
ReadFrs(b, n) ==
    IF n = 0 THEN Ok(<<>>, b)
    ELSE IF b = <<>> \/ Head(b) >= P THEN Err
    ELSE LET t == ReadFrs(Tail(b), n - 1)
         IN  IF t.tag # "ok" THEN Err ELSE Ok(<<Head(b)>> \o t.val, t.rest)

RECURSIVE ReadVecFrs(_, _)
ReadVecFrs(b, n) ==
    IF n = 0 THEN Ok(<<>>, b)
    ELSE IF b = <<>> THEN Err
    ELSE LET h == ReadFrs(Tail(b), Head(b))
             t == ReadVecFrs(h.rest, n - 1)
         IN  IF h.tag # "ok" THEN Err
             ELSE IF t.tag # "ok" THEN Err
             ELSE Ok(<<h.val>> \o t.val, t.rest)

\* Vec::<Vec<F>>::serialize_with_mode
VecVecFr_serialize(vecs) ==
    <<Len(vecs)>> \o ConcatAll([i \in 1 .. Len(vecs) |-> <<Len(vecs[i])>> \o vecs[i]])

\* Vec::<Vec<F>>::deserialize_with_mode
VecVecFr_deserialize(b) ==
    IF b = <<>> THEN Err ELSE ReadVecFrs(Tail(b), Head(b))

\* impl CanonicalSerialize for Matrix<F>
Matrix_serialize(M, mode) == VecVecFr_serialize(to_vecs(M))

\* impl CanonicalDeserialize for Matrix<F>: decode the rows, then from_vecs.
Matrix_deserialize(b, mode) ==
    LET r == VecVecFr_deserialize(b)
    IN  IF r.tag # "ok" THEN Err
        ELSE IF from_vecs_panics(r.val) THEN Panic
        ELSE Ok(from_vecs(r.val), r.rest)

\* #[derive(CanonicalSerialize)] struct Commit1 { coms, rand }
Commit_serialize(c, mode) ==
    VecCom_serialize(c.coms, mode) \o Matrix_serialize(c.rand, mode)

\* #[derive(CanonicalDeserialize)] struct Commit1 { coms, rand }
Commit_deserialize(b, mode) ==
    LET r0 == VecCom_deserialize(b, mode)
        r1 == Matrix_deserialize(r0.rest, mode)
    IN  IF r0.tag # "ok" THEN Err
        ELSE IF r1.tag # "ok" THEN r1
        ELSE Ok([coms |-> r0.val, rand |-> r1.val], r1.rest)

\* ------------------------------------------------------------------------
\* Statement, prover, verifier (statement.rs, prover.rs, verifier.rs)
\* ------------------------------------------------------------------------
NoEqu == [a_consts |-> <<>>, b_consts |-> <<>>, gamma |-> zeros_column(0), target |-> 0]
NoProof == [pi |-> <<>>, theta |-> <<>>]

RECURSIVE SumTo(_, _)
SumTo(f, n) == IF n = 0 THEN 0 ELSE (SumTo(f, n - 1) + f[n]) % P

\* Sum over i, j of gamma[i,j] * e(X_i, Y_j), read in the exponent.
CrossTerm(xs, ys, gamma) ==
    SumTo([k \in 1 .. (Len(xs) * Len(ys)) |->
              LET i == (k - 1) \div Len(ys)
                  j == (k - 1) % Len(ys)
              IN  (At(gamma, i, j) * xs[i + 1] * ys[j + 1]) % P],
          Len(xs) * Len(ys))

\* PPE target in GT: prod e(X_i, b_i) * prod e(a_j, Y_j) * prod e(X_i, Y_j)^gamma_ij.
PPE_target(xs, ys, a, b, gamma) ==
    (SumTo([i \in 1 .. Len(xs) |-> E_pairing(xs[i], b[i])], Len(xs))
     + SumTo([j \in 1 .. Len(ys) |-> E_pairing(a[j], ys[j])], Len(ys))
     + CrossTerm(xs, ys, gamma)) % P

\* MSMEG1 target in G1: sum b_i X_i + sum y_j a_j + sum gamma_ij y_j X_i.
MSMEG1_target(xs, ys, a, b, gamma) ==
    (SumTo([i \in 1 .. Len(xs) |-> GMul(xs[i], b[i])], Len(xs))
     + SumTo([j \in 1 .. Len(ys) |-> GMul(a[j], ys[j])], Len(ys))
     + CrossTerm(xs, ys, gamma)) % P

\* The embedding of the second-domain values: i_2 for PPE, i_2' for MSMEG1.
Embed2(kind, vals, key) ==
    IF kind = "PPE" THEN batch_linear_map(vals)
    ELSE batch_scalar_linear_map(key.v[2], vals, key.g2_gen)

\* The CRS basis the theta half of the proof is paired against.
VBasis(kind, key) == IF kind = "PPE" THEN key.v ELSE << key.v[1] >>

RandCols2(kind) == IF kind = "PPE" THEN 2 ELSE 1

\* prove also requiring Gamma to have |a_consts| rows.
prove_panics_rows_a(kind, equ, xvars, yvars, xcoms, ycoms) ==
    \/ Len(xvars) # xcoms.rand.rows
    \/ equ.gamma.rows # xcoms.rand.rows
    \/ equ.gamma.rows # Len(equ.a_consts)
    \/ xcoms.rand.cols # 2
    \/ Len(yvars) # ycoms.rand.rows
    \/ equ.gamma.cols # ycoms.rand.rows
    \/ ycoms.rand.cols # RandCols2(kind)

\* Gamma is |X| x |Y|; R is |X| x 2; S is |Y| x 2 (PPE) or |Y| x 1 (MSMEG1).
prove_panics(kind, equ, xvars, yvars, xcoms, ycoms) ==
    \/ Len(xvars) # xcoms.rand.rows
    \/ equ.gamma.rows # xcoms.rand.rows
    \/ xcoms.rand.cols # 2
    \/ Len(yvars) # ycoms.rand.rows
    \/ equ.gamma.cols # ycoms.rand.rows
    \/ ycoms.rand.cols # RandCols2(kind)

prove(kind, equ, xvars, yvars, xcoms, ycoms, key, s) ==
    LET x_rand_trans == transpose(xcoms.rand)
        y_rand_trans == transpose(ycoms.rand)
        pf_rand == Matrix_rand(s, RandCols2(kind), 2)
        x_rand_lin_b ==
            left_mul_Com(vec_to_col_vec(Embed2(kind, equ.b_consts, key)), x_rand_trans)
        x_rand_stmt == right_mul_F(x_rand_trans, equ.gamma)
        x_rand_stmt_lin_y ==
            left_mul_Com(vec_to_col_vec(Embed2(kind, yvars, key)), x_rand_stmt)
        pf_rand_stmt ==
            add_F(right_mul_F(x_rand_stmt, ycoms.rand), neg_F(transpose(pf_rand)))
        v_pf_rand_stmt == left_mul_Com(vec_to_col_vec(VBasis(kind, key)), pf_rand_stmt)
        y_rand_lin_a ==
            left_mul_Com(vec_to_col_vec(batch_linear_map(equ.a_consts)), y_rand_trans)
        y_rand_stmt == right_mul_F(y_rand_trans, transpose(equ.gamma))
        y_rand_stmt_lin_x ==
            left_mul_Com(vec_to_col_vec(batch_linear_map(xvars)), y_rand_stmt)
        u_pf_rand == left_mul_Com(vec_to_col_vec(key.u), pf_rand)
    IN  [pi |-> col_vec_to_vec(add_Com(add_Com(x_rand_lin_b, x_rand_stmt_lin_y),
                                       v_pf_rand_stmt)),
         theta |-> col_vec_to_vec(add_Com(add_Com(y_rand_lin_a, y_rand_stmt_lin_x),
                                          u_pf_rand))]

ProofDraws(kind) == RandCols2(kind) * 2

linear_map_target(kind, target, key) ==
    IF kind = "PPE" THEN linear_map_PPE(target)
    ELSE linear_map_MSMEG1(target, key.v[2], key.g2_gen)

verify_panics(kind, equ, proof, xcoms, ycoms, key) ==
    \/ pairing_sum_panics(batch_linear_map(equ.a_consts), ycoms.coms)
    \/ pairing_sum_panics(xcoms.coms, Embed2(kind, equ.b_consts, key))
    \/ left_mul_Com_panics(vec_to_col_vec(ycoms.coms), equ.gamma)
    \/ equ.gamma.rows # Len(xcoms.coms)
    \/ pairing_sum_panics(key.u, proof.pi)
    \/ pairing_sum_panics(proof.theta, VBasis(kind, key))

verify(kind, equ, proof, xcoms, ycoms, key) ==
    LET lin_a_com_y == pairing_sum(batch_linear_map(equ.a_consts), ycoms.coms)
        com_x_lin_b == pairing_sum(xcoms.coms, Embed2(kind, equ.b_consts, key))
        stmt_com_y == left_mul_Com(vec_to_col_vec(ycoms.coms), equ.gamma)
        com_x_stmt_com_y == pairing_sum(xcoms.coms, col_vec_to_vec(stmt_com_y))
        lhs == ComT_add(ComT_add(lin_a_com_y, com_x_lin_b), com_x_stmt_com_y)
        lin_t == linear_map_target(kind, equ.target, key)
        com1_pf2 == pairing_sum(key.u, proof.pi)
        pf1_com2 == pairing_sum(proof.theta, VBasis(kind, key))
        rhs == ComT_add(ComT_add(lin_t, com1_pf2), pf1_com2)
    IN  ComT_eq(lhs, rhs)

\* ------------------------------------------------------------------------
\* One proof session: Stated -> Committed -> Proved -> Verified (tests/prover.rs)
\* ------------------------------------------------------------------------
VARIABLES pc, rng, crs, kind, xvars, yvars, gamma, xcoms, ycoms, equ, proof,
          proved_equ, verdict, tamper,
          mop, mdone, matA, matB, mres,
          sty, sphase, smode, sval, sval2, sbytes, sbytes2, sres,
          call, args, ret, returned,
          shared_key, tasks, sources

\* The proof session.
session == <<pc, rng, crs, kind, xvars, yvars, gamma, xcoms, ycoms, equ, proof,
             proved_equ, verdict, tamper>>

\* One matrix operation on two operands.
matlab == <<mop, mdone, matA, matB, mres>>

\* One value or byte string going through the canonical encoding.
serde == <<sty, sphase, smode, sval, sval2, sbytes, sbytes2, sres>>

\* One call of a function of the library on given arguments.
evaluation == <<call, args, ret, returned>>

sharing == <<shared_key, tasks, sources>>

vars == <<session, matlab, serde, evaluation, sharing>>

NoCrs == [g1_gen |-> 0, g2_gen |-> 0, u |-> <<>>, v |-> <<>>]

SessionIdle ==
    /\ pc = "Idle" /\ rng = 0 /\ crs = NoCrs /\ kind = "PPE"
    /\ xvars = <<>> /\ yvars = <<>> /\ gamma = zeros_column(0)
    /\ xcoms = NoCommit /\ ycoms = NoCommit /\ equ = NoEqu
    /\ proof = NoProof /\ proved_equ = NoEqu /\ verdict = "none" /\ tamper = "none"

MatlabIdle ==
    /\ mop = "none" /\ mdone = FALSE
    /\ matA = zeros_column(0) /\ matB = zeros_column(0) /\ mres = Err

SerdeIdle ==
    /\ sty = "none" /\ sphase = "idle" /\ smode = "compressed"
    /\ sval = <<>> /\ sval2 = <<>> /\ sbytes = <<>> /\ sbytes2 = <<>> /\ sres = Err

EvaluationIdle ==
    /\ call = "none" /\ args = <<>> /\ ret = <<>> /\ returned = FALSE

SharingIdle ==
    /\ shared_key = NoCrs /\ tasks = <<>> /\ sources = <<>>

\* Witness multiples of the generators, and the entries of Gamma.
XMultiples == {<<2, 3>>, <<0, 3>>, <<3>>}
YMultiples == {<<4>>, <<0>>, <<4, 1>>}
GammaEntries == {0, 5}
GammaShapes == {<<1, 1>>, <<2, 1>>, <<1, 2>>}

Gammas ==
    UNION { { [rows |-> sh[1], cols |-> sh[2], data |-> d] :
                d \in [1 .. (sh[1] * sh[2]) -> GammaEntries] } : sh \in GammaShapes }

Kinds == {"PPE", "MSMEG1"}

SessionInit ==
    /\ pc = "Start"
    /\ \E seed \in 0 .. (MaxSeed - 1) :
          /\ crs = generate_crs(seed)
          /\ rng = RngAfter(seed, CrsDraws)
    /\ kind \in Kinds
    /\ \E xm \in XMultiples : xvars = [i \in 1 .. Len(xm) |-> GMul(crs.g1_gen, xm[i])]
    /\ \E ym \in YMultiples :
          yvars = IF kind = "PPE"
                  THEN [j \in 1 .. Len(ym) |-> GMul(crs.g2_gen, ym[j])]
                  ELSE ym
    /\ gamma \in Gammas
    /\ xcoms = NoCommit
    /\ ycoms = NoCommit
    /\ equ = NoEqu
    /\ proof = NoProof
    /\ proved_equ = NoEqu
    /\ verdict = "none"
    /\ tamper = "none"

\* let xcoms = batch_commit_G1(&xvars, &crs, &mut rng);
CommitX ==
    /\ pc = "Start"
    /\ xcoms' = batch_commit_G1(xvars, crs, rng)
    /\ rng' = RngAfter(rng, 2 * Len(xvars))
    /\ pc' = "CommittedX"
    /\ UNCHANGED <<proved_equ, crs, kind, xvars, yvars, gamma, ycoms, equ, proof, verdict, tamper,
                 matlab, serde, evaluation, sharing>>

\* let ycoms = batch_commit_G2(..) / batch_commit_scalar_to_B2(..);
CommitY ==
    /\ pc = "CommittedX"
    /\ ycoms' = IF kind = "PPE" THEN batch_commit_G2(yvars, crs, rng)
                ELSE batch_commit_scalar_to_B2(yvars, crs, rng)
    /\ rng' = RngAfter(rng, RandCols2(kind) * Len(yvars))
    /\ pc' = "Committed"
    /\ UNCHANGED <<proved_equ, crs, kind, xvars, yvars, gamma, xcoms, equ, proof, verdict, tamper,
                 matlab, serde, evaluation, sharing>>

Target(k, xs, ys, a, b, g) ==
    IF k = "PPE" THEN PPE_target(xs, ys, a, b, g) ELSE MSMEG1_target(xs, ys, a, b, g)

\* a_consts (one per Y), b_consts (one per X, the first one zero), target.
StateEquation ==
    /\ pc = "Committed"
    /\ LET n == Len(yvars)
           m == Len(xvars)
           a == [j \in 1 .. n |-> GMul(crs.g1_gen, FrRand(rng, j))]
           b == [i \in 1 .. m |->
                    IF i = 1 /\ m > 1 THEN 0
                    ELSE IF kind = "PPE" THEN GMul(crs.g2_gen, FrRand(rng, n + i))
                    ELSE FrRand(rng, n + i)]
           sat == gamma.rows = m /\ gamma.cols = n
       IN  /\ equ' = [a_consts |-> a, b_consts |-> b, gamma |-> gamma,
                      target |-> IF sat THEN Target(kind, xvars, yvars, a, b, gamma)
                                 ELSE 0]
           /\ rng' = RngAfter(rng, n + m)
    /\ pc' = "Stated"
    /\ UNCHANGED <<proved_equ, crs, kind, xvars, yvars, gamma, xcoms, ycoms, proof, verdict, tamper,
                 matlab, serde, evaluation, sharing>>

\* let proof = equ.prove(&xvars, &yvars, &xcoms, &ycoms, &crs, &mut rng);
Prove ==
    /\ pc = "Stated"
    /\ IF prove_panics(kind, equ, xvars, yvars, xcoms, ycoms)
       THEN /\ pc' = "Aborted"
            /\ UNCHANGED <<proof, proved_equ, rng>>
       ELSE /\ pc' = "Proved"
            /\ proof' = prove(kind, equ, xvars, yvars, xcoms, ycoms, crs, rng)
            /\ proved_equ' = equ
            /\ rng' = RngAfter(rng, ProofDraws(kind))
    /\ UNCHANGED <<crs, kind, xvars, yvars, gamma, xcoms, ycoms, equ, verdict, tamper,
                   matlab, serde, evaluation, sharing>>

Replace(seq, i, x) == [seq EXCEPT ![i] = x]

\* An adversary replaces one entry of pi by a different group element.
TamperPi ==
    /\ pc = "Proved" /\ tamper = "none"
    /\ \E i \in 1 .. Len(proof.pi), c \in ComSet :
          /\ c # proof.pi[i]
          /\ proof' = [proof EXCEPT !.pi = Replace(proof.pi, i, c)]
    /\ tamper' = "pi"
    /\ UNCHANGED <<proved_equ, pc, rng, crs, kind, xvars, yvars, gamma, xcoms, ycoms, equ, verdict,
                 matlab, serde, evaluation, sharing>>

\* An adversary replaces one entry of theta by a different group element.
TamperTheta ==
    /\ pc = "Proved" /\ tamper = "none"
    /\ \E i \in 1 .. Len(proof.theta), c \in ComSet :
          /\ c # proof.theta[i]
          /\ proof' = [proof EXCEPT !.theta = Replace(proof.theta, i, c)]
    /\ tamper' = "theta"
    /\ UNCHANGED <<proved_equ, pc, rng, crs, kind, xvars, yvars, gamma, xcoms, ycoms, equ, verdict,
                 matlab, serde, evaluation, sharing>>

\* The equations that differ from e in one a_const, one b_const or the target.
StatementVariants(e) ==
    [t : {"a"}, e : { [e EXCEPT !.a_consts = Replace(e.a_consts, j, z)] :
                        j \in 1 .. Len(e.a_consts), z \in Fr }]
    \cup [t : {"b"}, e : { [e EXCEPT !.b_consts = Replace(e.b_consts, i, z)] :
                        i \in 1 .. Len(e.b_consts), z \in Fr }]
    \cup [t : {"target"}, e : { [e EXCEPT !.target = z] : z \in Fr }]

\* The statement is changed after the proof was made, without re-proving.
TamperStatement ==
    /\ pc = "Proved" /\ tamper = "none"
    /\ \E v \in StatementVariants(equ) :
          /\ v.e # equ
          /\ equ' = v.e
          /\ tamper' = v.t
    /\ UNCHANGED <<proved_equ, pc, rng, crs, kind, xvars, yvars, gamma, xcoms, ycoms, proof, verdict,
                 matlab, serde, evaluation, sharing>>

\* A different equation the same witnesses satisfy: one constant changed and
\* the target recomputed.
OtherEquations(e) ==
    { [v.e EXCEPT !.target =
          Target(kind, xvars, yvars, v.e.a_consts, v.e.b_consts, v.e.gamma)] :
        v \in { w \in StatementVariants(e) : w.t \in {"a", "b"} } } \ {e}

\* The proof is replaced by an honest proof of a different equation.
SubstituteProof ==
    /\ pc = "Proved" /\ tamper = "none"
    /\ \E other \in OtherEquations(equ) :
          /\ proof' = prove(kind, other, xvars, yvars, xcoms, ycoms, crs, rng)
          /\ proved_equ' = other
    /\ rng' = RngAfter(rng, ProofDraws(kind))
    /\ tamper' = "subst"
    /\ UNCHANGED <<pc, crs, kind, xvars, yvars, gamma, xcoms, ycoms, equ, verdict,
                 matlab, serde, evaluation, sharing>>

\* assert!(equ.verify(&proof, &xcoms, &ycoms, &crs));
Verify ==
    /\ pc = "Proved"
    /\ verdict' = IF verify_panics(kind, equ, proof, xcoms, ycoms, crs) THEN "panic"
                  ELSE IF verify(kind, equ, proof, xcoms, ycoms, crs) THEN "true"
                  ELSE "false"
    /\ pc' = "Verified"
    /\ UNCHANGED <<proved_equ, rng, crs, kind, xvars, yvars, gamma, xcoms, ycoms, equ, proof, tamper,
                 matlab, serde, evaluation, sharing>>

SessionNext ==
    \/ CommitX
    \/ CommitY
    \/ StateEquation
    \/ Prove
    \/ TamperPi
    \/ TamperTheta
    \/ TamperStatement
    \/ SubstituteProof
    \/ Verify

Init == SessionInit /\ MatlabIdle /\ SerdeIdle /\ EvaluationIdle /\ SharingIdle

Next == SessionNext

Spec == Init /\ [][Next]_vars

\* ------------------------------------------------------------------------
\* Matrix operations on operands built by Matrix::rand
\* ------------------------------------------------------------------------
Shapes == (0 .. MaxDim) \X (0 .. MaxDim)

\* Com::rand draws the two points of an entry one after the other.
ComMatrix_rand(s, rows, cols) ==
    Mk(rows, cols,
       LAMBDA i, j : <<FrRand(s, 2 * (i * cols + j) + 1), FrRand(s, 2 * (i * cols + j) + 2)>>)

FMats == { Matrix_rand(seed, sh[1], sh[2]) : seed \in 0 .. (MaxSeed - 1), sh \in Shapes }

ComMats == { ComMatrix_rand(seed, sh[1], sh[2]) : seed \in 0 .. (MaxSeed - 1), sh \in Shapes }

MatlabInit ==
    /\ mdone = FALSE
    /\ mres = Err
    /\ \/ mop = "add_F" /\ matA \in FMats /\ matB \in FMats
       \/ mop = "add_Com" /\ matA \in ComMats /\ matB \in ComMats
       \/ mop \in {"right_mul_Com", "left_mul_Com"} /\ matA \in ComMats /\ matB \in FMats

\* Matrix<F>::add(&self, other)
AddF ==
    /\ mop = "add_F" /\ ~ mdone
    /\ mres' = IF add_panics(matA, matB) THEN Panic ELSE Ok(add_F(matA, matB), <<>>)
    /\ mdone' = TRUE
    /\ UNCHANGED <<mop, matA, matB, session, serde, evaluation, sharing>>

\* Matrix<Com<G>>::add(&self, other)
AddCom ==
    /\ mop = "add_Com" /\ ~ mdone
    /\ mres' = IF add_panics(matA, matB) THEN Panic ELSE Ok(add_Com(matA, matB), <<>>)
    /\ mdone' = TRUE
    /\ UNCHANGED <<mop, matA, matB, session, serde, evaluation, sharing>>

\* Matrix<Com<G>>::right_mul(&self, rhs)
RightMulCom ==
    /\ mop = "right_mul_Com" /\ ~ mdone
    /\ mres' = IF right_mul_Com_panics(matA, matB) THEN Panic
               ELSE Ok(right_mul_Com(matA, matB), <<>>)
    /\ mdone' = TRUE
    /\ UNCHANGED <<mop, matA, matB, session, serde, evaluation, sharing>>

\* Matrix<Com<G>>::left_mul(&self, lhs)
LeftMulCom ==
    /\ mop = "left_mul_Com" /\ ~ mdone
    /\ mres' = IF left_mul_Com_panics(matA, matB) THEN Panic
               ELSE Ok(left_mul_Com(matA, matB), <<>>)
    /\ mdone' = TRUE
    /\ UNCHANGED <<mop, matA, matB, session, serde, evaluation, sharing>>

MatNext == AddF \/ AddCom \/ RightMulCom \/ LeftMulCom

MatInit == SessionIdle /\ MatlabInit /\ SerdeIdle /\ EvaluationIdle /\ SharingIdle

MatSpec == MatInit /\ [][MatNext]_vars

\* ------------------------------------------------------------------------
\* Values and byte strings going through the canonical encoding
\* ------------------------------------------------------------------------
ByteAlphabet == {0, 1, 2, P}

ByteInputs == UNION { [1 .. n -> ByteAlphabet] : n \in 0 .. MaxBytes }

CommitBatches == {<<>>, <<2>>, <<2, 3>>}

CommitSeeds == 0 .. (4 * MaxSeed - 1)

ValueTypes == {"Matrix", "Com", "Commit", "CommitPair"}
InputTypes == {"MatrixBytes", "CommitBytes"}

SerdeInit ==
    /\ sphase = "ready"
    /\ sres = Err
    /\ sbytes2 = <<>>
    /\ smode \in Modes
    /\ \/ sty = "Matrix" /\ sval \in FMats /\ sval2 = <<>> /\ sbytes = <<>>
       \/ sty = "Com" /\ sval \in ComSet /\ sval2 = <<>> /\ sbytes = <<>>
       \/ /\ sty = "Commit"
          /\ \E seed \in 0 .. (MaxSeed - 1), xm \in CommitBatches :
                LET key == generate_crs(seed)
                IN  sval = batch_commit_G1([i \in 1 .. Len(xm) |-> GMul(key.g1_gen, xm[i])],
                                           key, RngAfter(seed, CrsDraws))
          /\ sval2 = <<>> /\ sbytes = <<>>
       \/ /\ sty = "CommitPair"
          /\ \E seed \in 0 .. (MaxSeed - 1), sA \in CommitSeeds, sB \in CommitSeeds :
                LET key == generate_crs(seed)
                IN  /\ sval = commit_G1(GMul(key.g1_gen, 2), key, sA)
                    /\ sval2 = commit_G1(GMul(key.g1_gen, 2), key, sB)
          /\ sbytes = <<>>
       \/ sty \in InputTypes /\ sbytes \in ByteInputs /\ sval = <<>> /\ sval2 = <<>>

Encode(ty, v, mode) ==
    IF ty = "Matrix" THEN Matrix_serialize(v, mode)
    ELSE IF ty = "Com" THEN Com_serialize(v, mode)
    ELSE Commit_serialize(v, mode)

Decode(ty, b, mode) ==
    IF ty \in {"Matrix", "MatrixBytes"} THEN Matrix_deserialize(b, mode)
    ELSE IF ty = "Com" THEN Com_deserialize(b, mode)
    ELSE Commit_deserialize(b, mode)

\* v.serialize_with_mode(&mut bytes, mode)
Serialize ==
    /\ sphase = "ready" /\ sty \in ValueTypes
    /\ sbytes' = Encode(sty, sval, smode)
    /\ sbytes2' = IF sty = "CommitPair" THEN Encode(sty, sval2, smode) ELSE <<>>
    /\ sphase' = "encoded"
    /\ UNCHANGED <<sty, smode, sval, sval2, sres, session, matlab, evaluation, sharing>>

\* T::deserialize_with_mode(&bytes[..], mode, validate) of what was serialized
Deserialize ==
    /\ sphase = "encoded"
    /\ sres' = Decode(sty, sbytes, smode)
    /\ sphase' = "decoded"
    /\ UNCHANGED <<sty, smode, sval, sval2, sbytes, sbytes2, session, matlab, evaluation, sharing>>

\* T::deserialize_with_mode(&bytes[..], mode, validate) of an arbitrary input
DecodeInput ==
    /\ sphase = "ready" /\ sty \in InputTypes
    /\ sres' = Decode(sty, sbytes, smode)
    /\ sphase' = "decoded"
    /\ UNCHANGED <<sty, smode, sval, sval2, sbytes, sbytes2, session, matlab, evaluation, sharing>>

SerdeNext == Serialize \/ Deserialize \/ DecodeInput

SerdeSpecInit == SessionIdle /\ MatlabIdle /\ SerdeInit /\ EvaluationIdle /\ SharingIdle

SerdeSpec == SerdeSpecInit /\ [][SerdeNext]_vars

\* ------------------------------------------------------------------------
\* Single calls of the library's functions on drawn arguments
\*                                        (the unit tests of algebra/mod.rs)
\* ------------------------------------------------------------------------
\* Longest sequence handed to pairing_sum and to the batch commitments.
MaxLen == 2

EvalSeeds == 0 .. (4 * MaxSeed - 1)

\* n elements of Com drawn one after the other from the stream at s.
Com_rands(s, n) == [i \in 1 .. n |-> Com_rand(RngAfter(s, 2 * (i - 1)))]

ComGroupArgs == [a : ComSet, b : ComSet]

ComTGroupArgs == { [a |-> ComT_rand(sa), b |-> ComT_rand(sb)] : sa \in EvalSeeds, sb \in EvalSeeds }

ScalarMulArgs == { [a |-> a, b |-> Com_rand(sb), s |-> k] : a \in ComSet, sb \in EvalSeeds, k \in Fr }

PairingArgs == [x : ComSet, y : ComSet]

PairingSumArgs ==
    { [xs |-> Com_rands(sx, n), ys |-> Com_rands(sy, n)] :
        sx \in EvalSeeds, sy \in EvalSeeds, n \in 0 .. MaxLen }

LinearMapArgs == [z : Fr, c : ComSet, p : Fr]

\* let a = Com1::rand(..); let b = Com1::rand(..); a + b, -a, a - b, ..
ComGroup ==
    /\ call = "Com_group" /\ ~ returned
    /\ LET a == args.a
           b == args.b
       IN  ret' = [zero_add |-> Com_add(Com_zero, a),
                   add_neg |-> Com_add(a, Com_neg(a)),
                   add_ab |-> Com_add(a, b),
                   add_ba |-> Com_add(b, a),
                   sub_ab |-> Com_sub(a, b),
                   add_a_neg_b |-> Com_add(a, Com_neg(b)),
                   neg_sub_ba |-> Com_neg(Com_sub(b, a)),
                   is_zero |-> Com_is_zero(a),
                   sum |-> Com_sum(<<a, b, a>>),
                   sum_empty |-> Com_sum(<<>>)]
    /\ returned' = TRUE
    /\ UNCHANGED <<call, args, session, matlab, serde, sharing>>

\* let a = ComT::rand(..); let b = ComT::rand(..); a + b, -a, a - b, ..
ComTGroup ==
    /\ call = "ComT_group" /\ ~ returned
    /\ LET a == args.a
           b == args.b
       IN  ret' = [zero_add |-> ComT_add(ComT_zero, a),
                   add_neg |-> ComT_add(a, ComT_neg(a)),
                   add_ab |-> ComT_add(a, b),
                   add_ba |-> ComT_add(b, a),
                   sub_ab |-> ComT_sub(a, b),
                   add_a_neg_b |-> ComT_add(a, ComT_neg(b)),
                   neg_sub_ba |-> ComT_neg(ComT_sub(b, a)),
                   is_zero |-> ComT_is_zero(a),
                   sum |-> ComT_sum(<<a, b, a>>),
                   sum_empty |-> ComT_sum(<<>>)]
    /\ returned' = TRUE
    /\ UNCHANGED <<call, args, session, matlab, serde, sharing>>

\* (a + b).scalar_mul(&s), a.scalar_mul(&s) + b.scalar_mul(&s), ..
ScalarMul ==
    /\ call = "scalar_mul" /\ ~ returned
    /\ LET a == args.a
           b == args.b
       IN  ret' = [sum_scaled |-> Com_scalar_mul(Com_add(a, b), args.s),
                   scaled_sum |-> Com_add(Com_scalar_mul(a, args.s), Com_scalar_mul(b, args.s)),
                   a_s |-> Com_scalar_mul(a, args.s),
                   a_one |-> Com_scalar_mul(a, 1),
                   a_zero |-> Com_scalar_mul(a, 0)]
    /\ returned' = TRUE
    /\ UNCHANGED <<call, args, session, matlab, serde, sharing>>

\* ComT::pairing(x, y), ComT::pairing(Com1::zero(), y), ..
Pairing ==
    /\ call = "pairing" /\ ~ returned
    /\ ret' = [xy |-> pairing(args.x, args.y),
               zero_y |-> pairing(Com_zero, args.y),
               x_zero |-> pairing(args.x, Com_zero),
               lin |-> pairing(linear_map(args.x[2]), linear_map(args.y[2]))]
    /\ returned' = TRUE
    /\ UNCHANGED <<call, args, session, matlab, serde, sharing>>

\* ComT::pairing_sum(&xs, &ys) against the pairings of the entries
PairingSum ==
    /\ call = "pairing_sum" /\ ~ returned
    /\ ret' = IF pairing_sum_panics(args.xs, args.ys) THEN Panic
              ELSE Ok([sum |-> pairing_sum(args.xs, args.ys),
                       each |-> [i \in 1 .. Len(args.xs) |-> pairing(args.xs[i], args.ys[i])]],
                      <<>>)
    /\ returned' = TRUE
    /\ UNCHANGED <<call, args, session, matlab, serde, sharing>>

\* ComT::linear_map_PPE(&z), linear_map_MSMEG1(&z, &c, &p), linear_map_MSMEG2(&z, &c, &p)
LinearMaps ==
    /\ call = "linear_map" /\ ~ returned
    /\ ret' = [PPE |-> linear_map_PPE(args.z),
               MSMEG1 |-> linear_map_MSMEG1(args.z, args.c, args.p),
               MSMEG2 |-> linear_map_MSMEG2(args.z, args.c, args.p)]
    /\ returned' = TRUE
    /\ UNCHANGED <<call, args, session, matlab, serde, sharing>>

\* A Com matrix M (m x n), scalar matrices S (n x p), L (p x m) and B (m x n)
\* drawn one after the other.
MatProductArgs ==
    { [M |-> ComMatrix_rand(sd, m, n),
       S |-> Matrix_rand(RngAfter(sd, 2 * m * n), n, p),
       L |-> Matrix_rand(RngAfter(sd, 2 * m * n + n * p), p, m),
       B |-> Matrix_rand(RngAfter(sd, 2 * m * n + n * p + p * m), m, n)] :
        sd \in 0 .. (MaxSeed - 1), m \in 0 .. MaxDim, n \in 0 .. MaxDim, p \in 0 .. MaxDim }

\* Scalar matrices A (m x n), B and D (n x p), C (p x q) and a scalar s.
MatRingArgs ==
    { [A |-> Matrix_rand(sd, m, n),
       B |-> Matrix_rand(RngAfter(sd, m * n), n, p),
       D |-> Matrix_rand(RngAfter(sd, m * n + n * p), n, p),
       C |-> Matrix_rand(RngAfter(sd, m * n + 2 * n * p), p, q),
       s |-> FrRand(RngAfter(sd, m * n + 2 * n * p + p * q), 1)] :
        sd \in 0 .. (MaxSeed - 1), m \in 0 .. MaxDim, n \in 0 .. MaxDim,
        p \in 0 .. MaxDim, q \in 0 .. MaxDim }

\* Witness lists of the batch commitments, as multiples of the generator.
CommitLists == UNION { [1 .. n -> {0, 2, 3}] : n \in 0 .. MaxLen }

CommitArgs ==
    { [key |-> generate_crs(sk), s |-> sd, x |-> x, xs |-> xs] :
        sk \in 0 .. (MaxSeed - 1), sd \in EvalSeeds, x \in {0, 2, 3}, xs \in CommitLists }

\* M.right_mul(&S), M.left_mul(&L), A.right_mul(&B), B.left_mul(&A)
MatProducts ==
    /\ call = "mat_products" /\ ~ returned
    /\ ret' = IF \/ right_mul_Com_panics(args.M, args.S)
                 \/ left_mul_Com_panics(args.M, args.L)
                 \/ dot_panics(args.L, args.B)
              THEN Panic
              ELSE Ok([right |-> right_mul_Com(args.M, args.S),
                       left |-> left_mul_Com(args.M, args.L),
                       f_right |-> right_mul_F(args.L, args.B),
                       f_left |-> left_mul_F(args.B, args.L)], <<>>)
    /\ returned' = TRUE
    /\ UNCHANGED <<call, args, session, matlab, serde, sharing>>

\* (A B) C, A (B C), A (B + D), A B + A D, B + D, D + B, A + (-A), A s
MatRing ==
    /\ call = "mat_ring" /\ ~ returned
    /\ LET A == args.A
           B == args.B
           C == args.C
           D == args.D
       IN  ret' = [ab_c |-> right_mul_F(right_mul_F(A, B), C),
                   a_bc |-> right_mul_F(A, right_mul_F(B, C)),
                   a_bd |-> right_mul_F(A, add_F(B, D)),
                   ab_ad |-> add_F(right_mul_F(A, B), right_mul_F(A, D)),
                   b_d |-> add_F(B, D),
                   d_b |-> add_F(D, B),
                   a_neg_a |-> add_F(A, neg_F(A)),
                   a_s |-> scalar_mul_F(A, args.s)]
    /\ returned' = TRUE
    /\ UNCHANGED <<call, args, session, matlab, serde, sharing>>

\* commit_G1(&x, &key, &mut rng), commit_G2(&y, &key, &mut rng)
CommitSingle ==
    /\ call = "commit" /\ ~ returned
    /\ ret' = [c1 |-> commit_G1(args.x, args.key, args.s),
               c2 |-> commit_G2(args.x, args.key, args.s)]
    /\ returned' = TRUE
    /\ UNCHANGED <<call, args, session, matlab, serde, sharing>>

\* batch_commit_G1(&xs, &key, &mut rng), batch_commit_G2(&ys, &key, &mut rng)
CommitBatch ==
    /\ call = "batch_commit" /\ ~ returned
    /\ ret' = [c1 |-> batch_commit_G1(args.xs, args.key, args.s),
               c2 |-> batch_commit_G2(args.xs, args.key, args.s)]
    /\ returned' = TRUE
    /\ UNCHANGED <<call, args, session, matlab, serde, sharing>>

\* commit_scalar_to_B1 / _B2 and batch_commit_scalar_to_B1 / _B2
CommitScalar ==
    /\ call = "commit_scalar" /\ ~ returned
    /\ ret' = [c1 |-> commit_scalar_to_B1(args.x, args.key, args.s),
               c2 |-> commit_scalar_to_B2(args.x, args.key, args.s),
               b1 |-> batch_commit_scalar_to_B1(args.xs, args.key, args.s),
               b2 |-> batch_commit_scalar_to_B2(args.xs, args.key, args.s)]
    /\ returned' = TRUE
    /\ UNCHANGED <<call, args, session, matlab, serde, sharing>>

QuadArgs ==
    { [a1 |-> a1, a2 |-> a2, c1 |-> Com_rand(s1), p1 |-> p1, c2 |-> Com_rand(s2), p2 |-> p2] :
        a1 \in Fr, a2 \in Fr, s1 \in 0 .. (MaxSeed - 1), s2 \in EvalSeeds,
        p1 \in {1, 3}, p2 \in {1, 3} }

\* n scalars drawn one after the other from the stream at s.
Fr_rands(s, n) == [i \in 1 .. n |-> FrRand(s, i)]

EmbedArgs ==
    { [x |-> x, c |-> Com_rand(sc), p |-> p, xs |-> Fr_rands(sd, n)] :
        x \in Fr, sc \in EvalSeeds, p \in Fr, sd \in 0 .. (MaxSeed - 1), n \in 0 .. MaxLen }

TransposeArgs ==
    { [M |-> ComMatrix_rand(sd, r, c), A |-> Matrix_rand(RngAfter(sd, 2 * r * c), r, c)] :
        sd \in EvalSeeds, r \in 0 .. MaxDim, c \in 0 .. MaxDim }

\* Lists of unequal lengths.
PairingSumMismatchArgs ==
    { q \in { [xs |-> Com_rands(sx, nx), ys |-> Com_rands(sy, ny)] :
                sx \in EvalSeeds, sy \in EvalSeeds,
                nx \in 0 .. (MaxLen + 1), ny \in 0 .. (MaxLen + 1) } :
        Len(q.xs) # Len(q.ys) }

\* Random sources whose first two draws are the sums of the draws of s and s2.
SumSources(sa, sb) ==
    { sc \in 0 .. (32 * MaxSeed) :
        /\ FrRand(sc, 1) = (FrRand(sa, 1) + FrRand(sb, 1)) % P
        /\ FrRand(sc, 2) = (FrRand(sa, 2) + FrRand(sb, 2)) % P }

HomomorphismArgs ==
    UNION { { [key |-> generate_crs(sk), x |-> x, x2 |-> x2, s |-> sa, s2 |-> sb, s3 |-> sc] :
                sk \in 0 .. (MaxSeed - 1), x \in {0, 2, 3}, x2 \in {0, 3, 5},
                sc \in SumSources(sa, sb) } :
            sa \in 0 .. (MaxSeed - 1), sb \in EvalSeeds }

BilinearArgs ==
    { [a |-> Com_rand(sa), b |-> Com_rand(RngAfter(sa, 2)),
       y |-> Com_rand(sy), z |-> Com_rand(RngAfter(sy, 2)), s |-> k] :
        sa \in EvalSeeds, sy \in EvalSeeds, k \in Fr }

\* Com matrices M and N (m x n), scalar matrices S (n x p) and L (p x m).
TransposeMulArgs ==
    { [M |-> ComMatrix_rand(sd, m, n),
       N |-> ComMatrix_rand(RngAfter(sd, 2 * m * n), m, n),
       S |-> Matrix_rand(RngAfter(sd, 4 * m * n), n, p),
       L |-> Matrix_rand(RngAfter(sd, 4 * m * n + n * p), p, m)] :
        sd \in 0 .. (MaxSeed - 1), m \in 0 .. MaxDim, n \in 0 .. MaxDim, p \in 0 .. MaxDim }

\* ComT::linear_map_quad against the two pairings of test_QuadEqu_linear_maps
LinearMapQuad ==
    /\ call = "linear_map_quad" /\ ~ returned
    /\ ret' = LET a == FMul(args.a1, args.a2)
                  W1 == Com_add(args.c1, linear_map(args.p1))
                  W2 == Com_add(args.c2, linear_map(args.p2))
              IN  [quad |-> linear_map_quad(a, args.c1, args.p1, args.c2, args.p2),
                   scaled |-> pairing(W1, Com_scalar_mul(W2, a)),
                   split |-> pairing(scalar_linear_map(args.c1, args.a1, args.p1),
                                     scalar_linear_map(args.c2, args.a2, args.p2))]
    /\ returned' = TRUE
    /\ UNCHANGED <<call, args, session, matlab, serde, sharing>>

\* linear_map, scalar_linear_map and their batch versions
Embeddings ==
    /\ call = "embeddings" /\ ~ returned
    /\ ret' = [lin |-> linear_map(args.x),
               slin |-> scalar_linear_map(args.c, args.x, args.p),
               blin |-> batch_linear_map(args.xs),
               bslin |-> batch_scalar_linear_map(args.c, args.xs, args.p)]
    /\ returned' = TRUE
    /\ UNCHANGED <<call, args, session, matlab, serde, sharing>>

\* transpose and neg of a scalar matrix A and of a Com matrix M
TransposeNeg ==
    /\ call = "transpose_neg" /\ ~ returned
    /\ ret' = [t_F |-> transpose(args.A),
               tt_F |-> transpose(transpose(args.A)),
               n_F |-> neg_F(args.A),
               t_Com |-> transpose_Com(args.M),
               tt_Com |-> transpose_Com(transpose_Com(args.M)),
               n_Com |-> neg_Com(args.M)]
    /\ returned' = TRUE
    /\ UNCHANGED <<call, args, session, matlab, serde, sharing>>

\* ComT::pairing_sum(&xs, &ys) on lists of unequal lengths
PairingSumMismatch ==
    /\ call = "pairing_sum_mismatch" /\ ~ returned
    /\ ret' = IF pairing_sum_panics(args.xs, args.ys)
              THEN Panic
              ELSE Ok([sum |-> pairing_sum(args.xs, args.ys)], <<>>)
    /\ returned' = TRUE
    /\ UNCHANGED <<call, args, session, matlab, serde, sharing>>

\* each single commit next to the batch commit of the one-element list, and
\* the batch commits of xs, all from the random source at args.s
CommitOneAndBatch ==
    /\ call = "commit_one_and_batch" /\ ~ returned
    /\ ret' = [g1 |-> commit_G1(args.x, args.key, args.s),
               g1_batch |-> batch_commit_G1(<<args.x>>, args.key, args.s),
               g2 |-> commit_G2(args.x, args.key, args.s),
               g2_batch |-> batch_commit_G2(<<args.x>>, args.key, args.s),
               b1 |-> commit_scalar_to_B1(args.x, args.key, args.s),
               b1_batch |-> batch_commit_scalar_to_B1(<<args.x>>, args.key, args.s),
               b2 |-> commit_scalar_to_B2(args.x, args.key, args.s),
               b2_batch |-> batch_commit_scalar_to_B2(<<args.x>>, args.key, args.s),
               many_G |-> batch_commit_G1(args.xs, args.key, args.s),
               many_s |-> batch_commit_scalar_to_B1(args.xs, args.key, args.s)]
    /\ returned' = TRUE
    /\ UNCHANGED <<call, args, session, matlab, serde, sharing>>

\* commitments to x, to x2 and to x + x2 under the sources s, s2 and s3
CommitSum ==
    /\ call = "commit_sum" /\ ~ returned
    /\ ret' = [c |-> commit_G1(args.x, args.key, args.s),
               c2 |-> commit_G1(args.x2, args.key, args.s2),
               c3 |-> commit_G1(GAdd(args.x, args.x2), args.key, args.s3),
               sc |-> commit_scalar_to_B1(args.x, args.key, args.s),
               sc2 |-> commit_scalar_to_B1(args.x2, args.key, args.s2),
               sc3 |-> commit_scalar_to_B1(FAdd(args.x, args.x2), args.key, args.s3)]
    /\ returned' = TRUE
    /\ UNCHANGED <<call, args, session, matlab, serde, sharing>>

\* ComT::pairing on sums and scalar multiples of its arguments
Bilinear ==
    /\ call = "bilinear" /\ ~ returned
    /\ ret' = [ab_y |-> pairing(Com_add(args.a, args.b), args.y),
               a_y |-> pairing(args.a, args.y),
               b_y |-> pairing(args.b, args.y),
               a_yz |-> pairing(args.a, Com_add(args.y, args.z)),
               a_z |-> pairing(args.a, args.z),
               sa_y |-> pairing(Com_scalar_mul(args.a, args.s), args.y),
               a_sy |-> pairing(args.a, Com_scalar_mul(args.y, args.s))]
    /\ returned' = TRUE
    /\ UNCHANGED <<call, args, session, matlab, serde, sharing>>

\* products of Com matrices against transpose and add
TransposeMul ==
    /\ call = "transpose_mul" /\ ~ returned
    /\ ret' = [rm_t |-> transpose_Com(right_mul_Com(args.M, args.S)),
               t_lm |-> left_mul_Com(transpose_Com(args.M), transpose(args.S)),
               sum_rm |-> right_mul_Com(add_Com(args.M, args.N), args.S),
               rm_sum |-> add_Com(right_mul_Com(args.M, args.S), right_mul_Com(args.N, args.S)),
               sum_lm |-> left_mul_Com(add_Com(args.M, args.N), args.L),
               lm_sum |-> add_Com(left_mul_Com(args.M, args.L), left_mul_Com(args.N, args.L))]
    /\ returned' = TRUE
    /\ UNCHANGED <<call, args, session, matlab, serde, sharing>>

EvaluationInit ==
    /\ returned = FALSE
    /\ ret = <<>>
    /\ \/ call = "Com_group" /\ args \in ComGroupArgs
       \/ call = "ComT_group" /\ args \in ComTGroupArgs
       \/ call = "scalar_mul" /\ args \in ScalarMulArgs
       \/ call = "pairing" /\ args \in PairingArgs
       \/ call = "pairing_sum" /\ args \in PairingSumArgs
       \/ call = "linear_map" /\ args \in LinearMapArgs
       \/ call = "mat_products" /\ args \in MatProductArgs
       \/ call = "mat_ring" /\ args \in MatRingArgs
       \/ call \in {"commit", "batch_commit", "commit_scalar"} /\ args \in CommitArgs
       \/ call = "linear_map_quad" /\ args \in QuadArgs
       \/ call = "embeddings" /\ args \in EmbedArgs
       \/ call = "transpose_neg" /\ args \in TransposeArgs
       \/ call = "pairing_sum_mismatch" /\ args \in PairingSumMismatchArgs
       \/ call = "commit_one_and_batch" /\ args \in CommitArgs
       \/ call = "commit_sum" /\ args \in HomomorphismArgs
       \/ call = "bilinear" /\ args \in BilinearArgs
       \/ call = "transpose_mul" /\ args \in TransposeMulArgs

EvalNext ==
    \/ ComGroup
    \/ ComTGroup
    \/ ScalarMul
    \/ Pairing
    \/ PairingSum
    \/ LinearMaps
    \/ MatProducts
    \/ MatRing
    \/ CommitSingle
    \/ CommitBatch
    \/ CommitScalar
    \/ LinearMapQuad
    \/ Embeddings
    \/ TransposeNeg
    \/ PairingSumMismatch
    \/ CommitOneAndBatch
    \/ CommitSum
    \/ Bilinear
    \/ TransposeMul

EvalInit == SessionIdle /\ MatlabIdle /\ SerdeIdle /\ EvaluationInit /\ SharingIdle

EvalSpec == EvalInit /\ [][EvalNext]_vars

\* ------------------------------------------------------------------------
\* Commit calls sharing one CRS: key is &CRS<E>, rng is &mut CR
\* ------------------------------------------------------------------------
Tasks == 1 .. 2

CommitFns == {"commit_G1", "batch_commit_G1", "commit_G2", "batch_commit_G2"}

\* Witness lists of the tasks; a single commit takes the first entry.
ShareWitnesses == {<<2>>, <<3, 2>>}

\* The number of scalars a commit function draws from rng.
commit_draws(fn, xs) ==
    IF fn \in {"commit_G1", "commit_G2"} THEN 2 ELSE 2 * Len(xs)

commit_call(fn, xs, key, s) ==
    CASE fn = "commit_G1" -> commit_G1(xs[1], key, s)
      [] fn = "batch_commit_G1" -> batch_commit_G1(xs, key, s)
      [] fn = "commit_G2" -> commit_G2(xs[1], key, s)
      [] fn = "batch_commit_G2" -> batch_commit_G2(xs, key, s)

\* rng: &mut CR, the random source a call draws from: its own.
\* RngOf_shared has every task draw from the source of task 1.
RngOf_shared(t) == 1

RngOf(t) == t

Other(t) == 3 - t

ShareInit ==
    /\ shared_key \in { generate_crs(sk) : sk \in 0 .. (MaxSeed - 1) }
    /\ tasks \in [Tasks -> [fn : CommitFns, xs : ShareWitnesses, seed : 0 .. (MaxSeed - 1),
                            pc : {"ready"}, s0 : {0}, drawn : {0}, overlapped : {FALSE},
                            out : {NoCommit}]]
    /\ sources = [t \in Tasks |-> tasks[t].seed]

\* the call is entered: the draws start at the current state of rng
Call(t) ==
    /\ tasks[t].pc = "ready"
    /\ tasks' = [tasks EXCEPT ![t].pc = "drawing", ![t].s0 = sources[RngOf(t)]]
    /\ UNCHANGED <<shared_key, sources, session, matlab, serde, evaluation>>

\* E::ScalarField::rand(rng): one draw
Draw(t) ==
    /\ tasks[t].pc = "drawing"
    /\ tasks[t].drawn < commit_draws(tasks[t].fn, tasks[t].xs)
    /\ sources' = [sources EXCEPT ![RngOf(t)] = RngStep(@)]
    /\ tasks' = [tasks EXCEPT ![t].drawn = @ + 1,
                              ![t].overlapped = @ \/ (tasks[Other(t)].pc = "drawing"
                                                       /\ tasks[Other(t)].drawn > 0)]
    /\ UNCHANGED <<shared_key, session, matlab, serde, evaluation>>

\* the Commit is built from the draws and returned
Return(t) ==
    /\ tasks[t].pc = "drawing"
    /\ tasks[t].drawn = commit_draws(tasks[t].fn, tasks[t].xs)
    /\ tasks' = [tasks EXCEPT ![t].pc = "done",
                              ![t].out = commit_call(tasks[t].fn, tasks[t].xs,
                                                     shared_key, tasks[t].s0)]
    /\ UNCHANGED <<shared_key, sources, session, matlab, serde, evaluation>>

ShareNext == \E t \in Tasks : Call(t) \/ Draw(t) \/ Return(t)

ShareSpecInit == SessionIdle /\ MatlabIdle /\ SerdeIdle /\ EvaluationIdle /\ ShareInit

ShareSpec == ShareSpecInit /\ [][ShareNext]_vars

\* ------------------------------------------------------------------------
\* Properties of the proof session
\* ------------------------------------------------------------------------
Honest == pc = "Verified" /\ tamper = "none"

\* The scenario of the tests: X = [2 g1, 3 g1], Y = [4 g2] (or y = [4]),
\* Gamma = [[5], [0]], b = [0, c2].
Scenario ==
    /\ xvars = <<GMul(crs.g1_gen, 2), GMul(crs.g1_gen, 3)>>
    /\ yvars = IF kind = "PPE" THEN <<GMul(crs.g2_gen, 4)>> ELSE <<4>>
    /\ gamma = [rows |-> 2, cols |-> 1, data |-> <<5, 0>>]

\* C1: completeness of the pairing-product equation: for every CRS, witnesses,
\* constants, Gamma and target satisfying the equation and every randomness,
\* batch_commit_G1, batch_commit_G2, prove, then verify returns true.
C1_PPECompleteness == (Honest /\ kind = "PPE") => verdict = "true"

C1_Witness == Honest /\ kind = "PPE" /\ Scenario /\ verdict = "true"

\* C2: completeness of the multi-scalar-multiplication equation in G1:
\* batch_commit_G1 of X, batch_commit_scalar_to_B2 of y, prove, then verify
\* returns true for every randomness.
C2_MSMEG1Completeness == (Honest /\ kind = "MSMEG1") => verdict = "true"

C2_Witness == Honest /\ kind = "MSMEG1" /\ Scenario /\ verdict = "true"

\* The commitment of X_i (of Y_j) is the bare embedding of its witness: the
\* randomness drawn for it cancels.
XBare(i) == xcoms.coms[i] = linear_map(xvars[i])
YBare(j) == ycoms.coms[j] = Embed2(kind, yvars, crs)[j]

\* The constants in which the verified equation and the proved one differ.
DiffA == { j \in 1 .. Len(equ.a_consts) : equ.a_consts[j] # proved_equ.a_consts[j] }
DiffB == { i \in 1 .. Len(equ.b_consts) : equ.b_consts[i] # proved_equ.b_consts[i] }

C4_StatementTampering ==
    (pc = "Verified" /\ kind = "MSMEG1" /\ Scenario /\ tamper \in {"a", "b", "target"})
        => verdict = "false"

C4_Witness ==
    /\ pc = "Verified" /\ kind = "MSMEG1" /\ Scenario /\ tamper = "b"
    /\ equ.b_consts[2] # proved_equ.b_consts[2] /\ verdict = "false"

GammaMismatch == equ.gamma.rows # Len(xvars) \/ equ.gamma.cols # Len(yvars)

\* C5 (as claimed): Gamma has |a_consts| rows and |b_consts| columns, so no
\* proof exists for an equation whose Gamma row count differs from |a_consts|.
C5_GammaRowsAreAConsts ==
    pc \in {"Proved", "Verified"} =>
        (equ.gamma.rows = Len(equ.a_consts) /\ equ.gamma.cols = Len(equ.b_consts))

\* C5 (amended): Gamma has |X| = |b_consts| rows and |Y| = |a_consts| columns;
\* prove aborts exactly on an equation whose Gamma shape differs from that, no
\* proof is produced and verify never sees the mismatch.
C5_GammaShape ==
    /\ pc \in {"Proved", "Verified"} =>
          (equ.gamma.rows = Len(equ.b_consts) /\ equ.gamma.cols = Len(equ.a_consts))
    /\ pc = "Aborted" => (GammaMismatch /\ proof = NoProof /\ verdict = "none")
    /\ (pc \in {"Proved", "Verified"}) => ~ GammaMismatch

C5_Witness ==
    /\ pc = "Aborted" /\ proof = NoProof
    /\ equ.gamma.rows = Len(equ.a_consts) /\ equ.gamma.cols = Len(equ.b_consts)

\* ------------------------------------------------------------------------
\* Properties of the matrix operations and of the encoding
\* ------------------------------------------------------------------------
\* C6: the encoding of a Commit1 does not carry its randomness: two
\* commitments with equal coms and different rand have the same encoding.
C6_RandNeverCrosses ==
    /\ (sphase = "encoded" /\ sty = "CommitPair" /\ sval.coms = sval2.coms)
          => sbytes = sbytes2
    /\ (sphase = "decoded" /\ sty = "CommitPair") => sres.val.rand.data = <<>>

\* C7: deserialize(serialize(v)) returns a value equal to v for every Com,
\* Commit1 and Matrix the constructors build, in both modes.
C7_RoundTrip ==
    (sphase = "decoded" /\ sty \in ValueTypes) => (sres.tag = "ok" /\ sres.val = sval)

\* C8: decoding any byte input returns a value or a decode error, never a panic.
C8_DecodeNeverAborts ==
    (sphase = "decoded" /\ sty \in InputTypes) => sres.tag \in {"ok", "err"}

\* C9: add aborts on every dimension mismatch, and on equal dimensions the
\* result has that dimension with entry (i,j) = A[i,j] + B[i,j].
C9_AddFatalOnMismatch ==
    /\ (mdone /\ mop \in {"add_F", "add_Com"} /\ dim(matA) # dim(matB))
          => mres.tag = "panic"
    /\ (mdone /\ mop = "add_F" /\ dim(matA) = dim(matB)) =>
          /\ mres.tag = "ok" /\ dim(mres.val) = dim(matA)
          /\ \A k \in 1 .. Len(matA.data) : mres.val.data[k] = FAdd(matA.data[k], matB.data[k])
    /\ (mdone /\ mop = "add_Com" /\ dim(matA) = dim(matB)) =>
          /\ mres.tag = "ok" /\ dim(mres.val) = dim(matA)
          /\ \A k \in 1 .. Len(matA.data) : mres.val.data[k] = Com_add(matA.data[k], matB.data[k])

\* C10: right_mul aborts whenever cols(M) # rows(S) and left_mul whenever
\* cols(S) # rows(M); no result is computed from a truncated operand.
C10_MulFatalOnMismatch ==
    /\ (mdone /\ mop = "right_mul_Com" /\ matA.cols # matB.rows) => mres.tag = "panic"
    /\ (mdone /\ mop = "left_mul_Com" /\ matB.cols # matA.rows) => mres.tag = "panic"

\* ------------------------------------------------------------------------
\* Properties of the algebra
\* ------------------------------------------------------------------------
\* C11: pairing_sum(xs, ys) is the sum of the pairings of the entries, in all
\* four cells, and ComT::zero() on the empty sequences.
C11_PairingSumIsSumOfPairings ==
    (returned /\ call = "pairing_sum") =>
        /\ ret.tag = "ok"
        /\ ret.val.sum = ComT_sum(ret.val.each)
        /\ (args.xs = <<>> => ret.val.sum = ComT_zero)

C11_Witness ==
    /\ returned /\ call = "pairing_sum" /\ Len(args.xs) = 2
    /\ ret.val.sum # ComT_zero /\ ret.val.sum # ret.val.each[1]

\* C12: Com and ComT are abelian groups: zero + a = a, a + (-a) = zero,
\* a + b = b + a, a - b = a + (-b) = -(b - a), is_zero(a) exactly when
\* a = zero, and the sum of a sequence is the fold of + from zero.
C12_GroupLaws ==
    (returned /\ call \in {"Com_group", "ComT_group"}) =>
        LET zero == IF call = "Com_group" THEN Com_zero ELSE ComT_zero
            a == args.a
            b == args.b
        IN  /\ ret.zero_add = a
            /\ ret.add_neg = zero
            /\ ret.add_ab = ret.add_ba
            /\ ret.sub_ab = ret.add_a_neg_b
            /\ ret.sub_ab = ret.neg_sub_ba
            /\ ret.is_zero <=> (a = zero)
            /\ ret.sum_empty = zero
            /\ ret.sum = IF call = "Com_group"
                         THEN Com_add(Com_add(Com_add(Com_zero, a), b), a)
                         ELSE ComT_add(ComT_add(ComT_add(ComT_zero, a), b), a)
            /\ \A c \in DOMAIN a : ret.sum[c] = (2 * a[c] + b[c]) % P

C12_Witness ==
    /\ returned /\ call = "Com_group" /\ args.a # Com_zero /\ args.b # Com_zero
    /\ args.a # args.b /\ ret.sub_ab # Com_zero /\ ~ ret.is_zero

\* C13: the scalar action on Com: (a + b) s = a s + b s, a 1 = a,
\* a 0 = zero, and both components are multiplied by the same scalar.
C13_ScalarAction ==
    (returned /\ call = "scalar_mul") =>
        /\ ret.sum_scaled = ret.scaled_sum
        /\ ret.a_one = args.a
        /\ ret.a_zero = Com_zero
        /\ ret.a_s = <<(args.a[1] * args.s) % P, (args.a[2] * args.s) % P>>

C13_Witness ==
    /\ returned /\ call = "scalar_mul" /\ args.s > 1
    /\ args.a[1] # 0 /\ args.a[2] # 0 /\ args.b # Com_zero /\ ret.a_s # args.a

InnerProduct(a(_), b(_), n) == SumTo([k \in 1 .. n |-> (a(k - 1) * b(k - 1)) % P], n)

\* C15: M.right_mul(S)[i,j] = sum_k M[i,k] * S[k,j] with dimension
\* (rows(M), cols(S)); M.left_mul(L)[i,j] = sum_k M[k,j] * L[i,k] with
\* dimension (rows(L), cols(M)); for scalar matrices B.left_mul(A) =
\* A.right_mul(B) = the product A B.
C15_MatrixProducts ==
    (returned /\ call = "mat_products") =>
        LET M == args.M
            S == args.S
            L == args.L
            B == args.B
        IN  /\ ret.tag = "ok"
            /\ dim(ret.val.right) = <<M.rows, S.cols>>
            /\ \A i \in 0 .. (M.rows - 1), j \in 0 .. (S.cols - 1), c \in 1 .. 2 :
                  At(ret.val.right, i, j)[c] =
                     InnerProduct(LAMBDA k : At(M, i, k)[c], LAMBDA k : At(S, k, j), M.cols)
            /\ dim(ret.val.left) = <<L.rows, M.cols>>
            /\ \A i \in 0 .. (L.rows - 1), j \in 0 .. (M.cols - 1), c \in 1 .. 2 :
                  At(ret.val.left, i, j)[c] =
                     InnerProduct(LAMBDA k : At(M, k, j)[c], LAMBDA k : At(L, i, k), M.rows)
            /\ ret.val.f_left = ret.val.f_right
            /\ dim(ret.val.f_right) = <<L.rows, B.cols>>
            /\ \A i \in 0 .. (L.rows - 1), j \in 0 .. (B.cols - 1) :
                  At(ret.val.f_right, i, j) =
                     InnerProduct(LAMBDA k : At(L, i, k), LAMBDA k : At(B, k, j), L.cols)

C15_Witness ==
    /\ returned /\ call = "mat_products" /\ ret.tag = "ok"
    /\ dim(args.M) = <<2, 2>> /\ dim(args.S) = <<2, 1>> /\ dim(args.L) = <<1, 2>>
    /\ At(ret.val.left, 0, 1) # Com_zero /\ At(ret.val.right, 1, 0) # Com_zero
    /\ At(ret.val.f_right, 0, 0) # 0

\* C16: scalar matrices of compatible dimension: (A B) C = A (B C),
\* A (B + D) = A B + A D, B + D = D + B, A + (-A) is the all-zero matrix and
\* A.scalar_mul(s) multiplies every entry by s.
C16_MatrixRing ==
    (returned /\ call = "mat_ring") =>
        LET A == args.A
        IN  /\ ret.ab_c = ret.a_bc
            /\ dim(ret.ab_c) = <<A.rows, args.C.cols>>
            /\ ret.a_bd = ret.ab_ad
            /\ ret.b_d = ret.d_b
            /\ ret.a_neg_a = [rows |-> A.rows, cols |-> A.cols,
                              data |-> [k \in 1 .. (A.rows * A.cols) |-> 0]]
            /\ dim(ret.a_s) = dim(A)
            /\ \A k \in 1 .. (A.rows * A.cols) : ret.a_s.data[k] = (A.data[k] * args.s) % P

C16_Witness ==
    /\ returned /\ call = "mat_ring" /\ args.s > 1
    /\ dim(args.A) = <<2, 2>> /\ dim(args.B) = <<2, 2>> /\ dim(args.C) = <<2, 1>>
    /\ \E k \in 1 .. 2 : ret.ab_c.data[k] # 0
    /\ \E k \in 1 .. 4 : ret.a_bd.data[k] # 0 /\ args.A.data[k] # 0

\* The commitment i(x) + w0 r1 + w1 r2 written out in both components.
Randomized(lin, w, r1, r2) ==
    <<(lin[1] + w[1][1] * r1 + w[2][1] * r2) % P, (lin[2] + w[1][2] * r1 + w[2][2] * r2) % P>>

\* C17: commit_G1(x) draws r1 then r2 and returns the single commitment
\* (O, x) + u[0] r1 + u[1] r2 with rand the 1 x 2 matrix [r1 r2]; commit_G2
\* does the same against v.
C17_CommitSingle ==
    (returned /\ call = "commit") =>
        LET r1 == FrRand(args.s, 1)
            r2 == FrRand(args.s, 2)
        IN  /\ ret.c1.coms = << Randomized(<<0, args.x>>, args.key.u, r1, r2) >>
            /\ ret.c1.rand = [rows |-> 1, cols |-> 2, data |-> <<r1, r2>>]
            /\ ret.c2.coms = << Randomized(<<0, args.x>>, args.key.v, r1, r2) >>
            /\ ret.c2.rand = [rows |-> 1, cols |-> 2, data |-> <<r1, r2>>]

C17_Witness ==
    /\ returned /\ call = "commit" /\ args.x # 0
    /\ FrRand(args.s, 1) # 0 /\ FrRand(args.s, 2) # 0 /\ FrRand(args.s, 1) # FrRand(args.s, 2)
    /\ ret.c1.coms[1] # <<0, args.x>> /\ ret.c2.coms[1] # <<0, args.x>>

\* C18: batch_commit_G1(xs) on m inputs returns m commitments and an m x 2
\* matrix R with coms[i] = (O, xs[i]) + u[0] R[i,0] + u[1] R[i,1] in input
\* order; batch_commit_G2 the same against v.
C18_CommitBatch ==
    (returned /\ call = "batch_commit") =>
        LET m == Len(args.xs)
        IN  /\ Len(ret.c1.coms) = m /\ dim(ret.c1.rand) = <<m, 2>>
            /\ Len(ret.c1.rand.data) = 2 * m
            /\ \A i \in 1 .. m :
                  ret.c1.coms[i] = Randomized(<<0, args.xs[i]>>, args.key.u,
                                              At(ret.c1.rand, i - 1, 0), At(ret.c1.rand, i - 1, 1))
            /\ Len(ret.c2.coms) = m /\ dim(ret.c2.rand) = <<m, 2>>
            /\ Len(ret.c2.rand.data) = 2 * m
            /\ \A i \in 1 .. m :
                  ret.c2.coms[i] = Randomized(<<0, args.xs[i]>>, args.key.v,
                                              At(ret.c2.rand, i - 1, 0), At(ret.c2.rand, i - 1, 1))

C18_Witness ==
    /\ returned /\ call = "batch_commit" /\ Len(args.xs) = 2 /\ args.xs[1] # args.xs[2]
    /\ At(ret.c1.rand, 1, 0) # At(ret.c1.rand, 1, 1) /\ At(ret.c1.rand, 0, 0) # At(ret.c1.rand, 1, 0)
    /\ ret.c1.coms[2] # <<0, args.xs[2]>> /\ ret.c2.coms[2] # <<0, args.xs[2]>>

\* The scalar commitment (w1 + (O, g)) x + w0 r written out in both components.
ScalarRandomized(w, g, x, r) ==
    <<(w[2][1] * x + w[1][1] * r) % P, ((w[2][2] + g) * x + w[1][2] * r) % P>>

\* C19: commit_scalar_to_B1(x) returns the single commitment
\* (u[1] + (O, g1_gen)) x + u[0] r with rand the 1 x 1 matrix [r];
\* batch_commit_scalar_to_B1 returns m such commitments and an m x 1 rand;
\* the B2 functions do the same against v and g2_gen.
C19_CommitScalar ==
    (returned /\ call = "commit_scalar") =>
        LET r == FrRand(args.s, 1)
            m == Len(args.xs)
            key == args.key
        IN  /\ ret.c1.coms = << ScalarRandomized(key.u, key.g1_gen, args.x, r) >>
            /\ ret.c1.rand = [rows |-> 1, cols |-> 1, data |-> <<r>>]
            /\ ret.c2.coms = << ScalarRandomized(key.v, key.g2_gen, args.x, r) >>
            /\ ret.c2.rand = [rows |-> 1, cols |-> 1, data |-> <<r>>]
            /\ Len(ret.b1.coms) = m /\ dim(ret.b1.rand) = <<m, 1>>
            /\ Len(ret.b1.rand.data) = m
            /\ \A i \in 1 .. m :
                  ret.b1.coms[i] = ScalarRandomized(key.u, key.g1_gen, args.xs[i],
                                                    At(ret.b1.rand, i - 1, 0))
            /\ Len(ret.b2.coms) = m /\ dim(ret.b2.rand) = <<m, 1>>
            /\ Len(ret.b2.rand.data) = m
            /\ \A i \in 1 .. m :
                  ret.b2.coms[i] = ScalarRandomized(key.v, key.g2_gen, args.xs[i],
                                                    At(ret.b2.rand, i - 1, 0))

C19_Witness ==
    /\ returned /\ call = "commit_scalar" /\ args.x # 0 /\ Len(args.xs) = 2
    /\ args.xs[2] # 0 /\ FrRand(args.s, 1) # 0 /\ At(ret.b1.rand, 1, 0) # 0
    /\ ret.c1.coms[1] # Com_zero /\ ret.b2.coms[2] # Com_zero

\* C20: linear_map_PPE(z) = (0, 0, 0, z); linear_map_MSMEG1(z, c2, p2) =
\* (0, 0, e(z, c2.0), e(z, c2.1 + p2)); linear_map_MSMEG2(z, c1, p1) =
\* (0, e(c1.0, z), 0, e(c1.1 + p1, z)).
C20_LinearMapCells ==
    (returned /\ call = "linear_map") =>
        LET z == args.z
            c == args.c
            q == (args.c[2] + args.p) % P
        IN  /\ ret.PPE = <<0, 0, 0, z>>
            /\ ret.MSMEG1 = <<0, 0, (z * c[1]) % P, (z * q) % P>>
            /\ ret.MSMEG2 = <<0, (c[1] * z) % P, 0, (q * z) % P>>

C20_Witness ==
    /\ returned /\ call = "linear_map" /\ args.z # 0 /\ args.p # 0
    /\ ret.MSMEG1[3] # 0 /\ ret.MSMEG1[4] # 0 /\ ret.MSMEG1[4] # (args.z * args.c[2]) % P

\* C21: with W1 = c1 + (O, p1) and W2 = c2 + (O, p2),
\* linear_map_quad(a1 a2, c1, p1, c2, p2) equals pairing(W1, W2 (a1 a2)) and
\* pairing(c1.scalar_linear_map(a1, p1), c2.scalar_linear_map(a2, p2)).
C21_QuadLinearMap ==
    (returned /\ call = "linear_map_quad") =>
        LET a == (args.a1 * args.a2) % P
            W1 == <<args.c1[1], (args.c1[2] + args.p1) % P>>
            W2 == <<args.c2[1], (args.c2[2] + args.p2) % P>>
        IN  /\ ret.quad = ret.scaled
            /\ ret.quad = ret.split
            /\ ret.quad = <<(a * W1[1] * W2[1]) % P, (a * W1[1] * W2[2]) % P,
                            (a * W1[2] * W2[1]) % P, (a * W1[2] * W2[2]) % P>>

C21_Witness ==
    /\ returned /\ call = "linear_map_quad"
    /\ args.a1 > 1 /\ args.a2 > 1 /\ (args.a1 * args.a2) % P > 1
    /\ args.c2[1] # 0 /\ args.c2[2] # 0
    /\ \A k \in 1 .. 4 : ret.quad[k] # 0
    /\ ret.quad # pairing(args.c1, args.c2)

\* C22: linear_map(x) is (O, x); c.scalar_linear_map(x, p) is
\* (c.0 x, (c.1 + p) x), the generator added before the scaling; the batch
\* versions apply them entry by entry, keeping length and order.
C22_Embeddings ==
    (returned /\ call = "embeddings") =>
        LET c == args.c
            p == args.p
            n == Len(args.xs)
        IN  /\ ret.lin = <<0, args.x>>
            /\ ret.slin = <<(c[1] * args.x) % P, ((c[2] + p) * args.x) % P>>
            /\ Len(ret.blin) = n /\ Len(ret.bslin) = n
            /\ \A i \in 1 .. n :
                  /\ ret.blin[i] = <<0, args.xs[i]>>
                  /\ ret.bslin[i] = <<(c[1] * args.xs[i]) % P, ((c[2] + p) * args.xs[i]) % P>>

C22_Witness ==
    /\ returned /\ call = "embeddings" /\ args.x > 1 /\ args.p # 0
    /\ Len(args.xs) = 2 /\ args.xs[1] # args.xs[2] /\ args.xs[1] > 1
    /\ ret.slin[1] # 0
    /\ ret.slin[2] # (args.c[2] * args.x + args.p) % P
    /\ ret.bslin[1] # ret.bslin[2]

\* C25: transpose of an r x c matrix is c x r with the entry of (i, j) at
\* (j, i), and transposing twice gives the matrix back; neg keeps the
\* dimension and negates every entry; both for scalar and Com matrices.
C25_TransposeNeg ==
    (returned /\ call = "transpose_neg") =>
        LET A == args.A
            M == args.M
        IN  /\ dim(ret.t_F) = <<A.cols, A.rows>>
            /\ dim(ret.t_Com) = <<M.cols, M.rows>>
            /\ \A i \in 0 .. (A.rows - 1), j \in 0 .. (A.cols - 1) :
                  /\ ret.t_F.data[j * A.rows + i + 1] = A.data[i * A.cols + j + 1]
                  /\ ret.t_Com.data[j * M.rows + i + 1] = M.data[i * M.cols + j + 1]
            /\ ret.tt_F = A
            /\ ret.tt_Com = M
            /\ dim(ret.n_F) = dim(A) /\ Len(ret.n_F.data) = Len(A.data)
            /\ dim(ret.n_Com) = dim(M) /\ Len(ret.n_Com.data) = Len(M.data)
            /\ \A k \in 1 .. Len(A.data) :
                  /\ (ret.n_F.data[k] + A.data[k]) % P = 0
                  /\ (ret.n_Com.data[k][1] + M.data[k][1]) % P = 0
                  /\ (ret.n_Com.data[k][2] + M.data[k][2]) % P = 0

C25_Witness ==
    /\ returned /\ call = "transpose_neg"
    /\ args.A.rows = 2 /\ args.A.cols = 2
    /\ args.A.data[2] # args.A.data[3] /\ args.M.data[2] # args.M.data[3]
    /\ ret.t_F # args.A /\ ret.t_Com # args.M
    /\ ret.n_F # args.A /\ ret.n_Com.data[1] # args.M.data[1]

\* C26: pairing_sum on sequences of different lengths aborts: it returns no
\* sum, neither of a truncated prefix nor of anything else.
C26_PairingSumLengthMismatch ==
    (returned /\ call = "pairing_sum_mismatch") =>
        /\ Len(args.xs) # Len(args.ys)
        /\ ret = Panic

C26_Witness ==
    /\ returned /\ call = "pairing_sum_mismatch"
    /\ Len(args.xs) = 1 /\ Len(args.ys) = 2
    /\ pairing(args.xs[1], args.ys[1]) # ComT_zero
    /\ ret.tag = "panic"

\* C27: under the same random stream a single commit equals the batch commit
\* of the one-element list (G1, G2, scalar B1, scalar B2); a batch of m group
\* elements takes the draws 1 .. 2m into its m x 2 rand in row-major order,
\* a batch of m scalars the draws 1 .. m.
C27_SingleIsBatchOfOne ==
    (returned /\ call = "commit_one_and_batch") =>
        LET m == Len(args.xs)
        IN  /\ ret.g1 = ret.g1_batch
            /\ ret.g2 = ret.g2_batch
            /\ ret.b1 = ret.b1_batch
            /\ ret.b2 = ret.b2_batch
            /\ dim(ret.many_G.rand) = <<m, 2>>
            /\ ret.many_G.rand.data = [k \in 1 .. (2 * m) |-> FrRand(args.s, k)]
            /\ dim(ret.many_s.rand) = <<m, 1>>
            /\ ret.many_s.rand.data = [k \in 1 .. m |-> FrRand(args.s, k)]

C27_Witness ==
    /\ returned /\ call = "commit_one_and_batch" /\ args.x # 0
    /\ Len(args.xs) = 2
    /\ FrRand(args.s, 2) # FrRand(args.s, 3) /\ FrRand(args.s, 1) # FrRand(args.s, 2)
    /\ ret.g1_batch.coms[1] # <<0, args.x>>
    /\ ret.many_G.rand.data[3] = FrRand(args.s, 3)

\* C28: the sum of two commitments is the commitment to the sum of the
\* witnesses under the sums of the random scalars, for commit_G1 and for
\* commit_scalar_to_B1.
C28_CommitHomomorphic ==
    (returned /\ call = "commit_sum") =>
        /\ \A k \in 1 .. 2 :
              ret.c3.rand.data[k] = (ret.c.rand.data[k] + ret.c2.rand.data[k]) % P
        /\ ret.sc3.rand.data[1] = (ret.sc.rand.data[1] + ret.sc2.rand.data[1]) % P
        /\ \A k \in 1 .. 2 :
              /\ (ret.c.coms[1][k] + ret.c2.coms[1][k]) % P = ret.c3.coms[1][k]
              /\ (ret.sc.coms[1][k] + ret.sc2.coms[1][k]) % P = ret.sc3.coms[1][k]

C28_Witness ==
    /\ returned /\ call = "commit_sum"
    /\ args.x # 0 /\ args.x2 # 0 /\ (args.x + args.x2) % P # 0
    /\ \A k \in 1 .. 2 : ret.c.rand.data[k] # 0 /\ ret.c2.rand.data[k] # 0
    /\ ret.c3.coms[1] # ret.c.coms[1] /\ ret.c3.coms[1] # ret.c2.coms[1]
    /\ ret.sc3.coms[1] # Com_zero

\* C29: pairing is bilinear: additive in the first argument, additive in the
\* second, and a scalar moves from one argument to the other.
C29_PairingBilinear ==
    (returned /\ call = "bilinear") =>
        /\ \A k \in 1 .. 4 :
              /\ ret.ab_y[k] = (ret.a_y[k] + ret.b_y[k]) % P
              /\ ret.a_yz[k] = (ret.a_y[k] + ret.a_z[k]) % P
              /\ ret.sa_y[k] = (args.s * ret.a_y[k]) % P
        /\ ret.sa_y = ret.a_sy

C29_Witness ==
    /\ returned /\ call = "bilinear" /\ args.s > 1
    /\ \A k \in 1 .. 4 : ret.a_y[k] # 0 /\ ret.b_y[k] # 0 /\ ret.a_z[k] # 0
    /\ ret.ab_y # ret.a_y /\ ret.a_yz # ret.a_y /\ ret.sa_y # ret.a_y

C24_CommitsShareCrs ==
    /\ [](\A t \in Tasks :
            tasks[t].pc = "done" =>
                /\ tasks[t].out = commit_call(tasks[t].fn, tasks[t].xs, shared_key, tasks[t].seed)
                /\ tasks[t].out.rand.data =
                      [k \in 1 .. commit_draws(tasks[t].fn, tasks[t].xs) |->
                          FrRand(tasks[t].seed, k)])
    /\ [][/\ shared_key' = shared_key
          /\ \A t \in Tasks : tasks'[t].xs = tasks[t].xs /\ tasks'[t].fn = tasks[t].fn]_vars

C24_Witness ==
    /\ tasks # <<>>
    /\ \A t \in Tasks : tasks[t].pc = "done" /\ tasks[t].overlapped
    /\ tasks[1].fn = "batch_commit_G1" /\ tasks[2].fn = "batch_commit_G2"
    /\ Len(tasks[1].xs) = 2
    /\ tasks[1].seed # tasks[2].seed
    /\ tasks[1].out.rand # tasks[2].out.rand

====
